---- MODULE Spec2Model ----
(***************************************************************************)
(* A model of shepherd: the task graph executor (arbiter's run_tasks, as   *)
(* spec.md section 4.1 describes it), the Resource create/destroy guards   *)
(* of shepherd/common/plugins.py and the Stack orchestration of            *)
(* shepherd/stack.py.                                                      *)
(***************************************************************************)
EXTENDS Integers, Sequences, FiniteSets, TLC

VARIABLES
    exec,       \* the run of the generic executor
    opLog,      \* per task of the generic run: did its invocations succeed
    resources,  \* Stack._resources: the local names, in insertion order
    res,        \* the Resource objects, by local name
    settings,   \* Stack.settings: retries and delay
    cloud,      \* the provider: the names whose provider object exists
    srun,       \* the executor run of provision/deprovision_resources
    rrun,       \* the executor run inside a resource's create()
    frame,      \* the resource operation in progress
    call,       \* the caller's operation and what it got back
    nops,       \* the number of operations the caller has started
    dict,       \* the mapping handed to deserialize or made by serialize
    stack,      \* the Stack object: its names and tags
    store       \* the storage backend's table: the items, by hash key

execVars == <<exec, opLog>>
stackVars == <<resources, res, settings, cloud, srun, rrun, frame, call, nops, dict, stack, store>>
vars == <<exec, opLog, resources, res, settings, cloud, srun, rrun, frame, call, nops, dict, stack, store>>

None == "None"

\* Largest retry count a task of a generic run is configured with.
MaxRetries == 2

(***************************************************************************)
(* The task graph executor.  A run holds the submitted tasks (names,       *)
(* prerequisite names, retry counts), the completed and the failed set,    *)
(* the number of invocations of each task, and the task being executed     *)
(* with the outcome of its operation.                                      *)
(***************************************************************************)

\* What a zero-argument task operation can do: return a truthy value,
\* return a falsy value, or raise.
Outcomes == {"ok", "falsy", "raise"}

\* create_task(name, function, dependencies=(), retries=0, delay=0)
create_task(name, dependencies, retries) ==
    [name |-> name, deps |-> dependencies, retries |-> retries]

NoRun ==
    [active |-> FALSE, names |-> {}, deps |-> <<>>, retries |-> <<>>,
     completed |-> {}, failed |-> {}, attempts |-> <<>>,
     running |-> None, outcome |-> None]

\* run_tasks(tasks): the state of a run when the tasks have been submitted.
NewRun(tasks) ==
    LET names == {tasks[i].name : i \in DOMAIN tasks}
        taskOf(n) == tasks[CHOOSE i \in DOMAIN tasks : tasks[i].name = n]
    IN  [active |-> TRUE, names |-> names,
         deps |-> [n \in names |-> taskOf(n).deps],
         retries |-> [n \in names |-> taskOf(n).retries],
         completed |-> {}, failed |-> {},
         attempts |-> [n \in names |-> 0],
         running |-> None, outcome |-> None]

Pending(run) == run.names \ (run.completed \cup run.failed)

\* A variant of Eligible that lets a task start once its prerequisites have
\* reached any terminal state.
EligibleOnceTerminal(run) ==
    IF run.active /\ run.running = None
    THEN {n \in Pending(run) : run.deps[n] \subseteq run.completed \cup run.failed}
    ELSE {}

\* A variant of Eligible that starts no further task once a task has failed.
EligibleWhileNoFailure(run) ==
    IF run.active /\ run.running = None /\ run.failed = {}
    THEN {n \in Pending(run) : run.deps[n] \subseteq run.completed}
    ELSE {}

\* A task is eligible once all of its prerequisites are in the completed set.
Eligible(run) ==
    IF run.active /\ run.running = None
    THEN {n \in Pending(run) : run.deps[n] \subseteq run.completed}
    ELSE {}

\* The executor picks task t and invokes its operation.
StartTask(run, t) ==
    [run EXCEPT !.running = t, !.attempts[t] = @ + 1]

\* The operation of the running task has ended with outcome o.
SetOutcome(run, o) == [run EXCEPT !.outcome = o]

\* A variant of RetryLeft that gives up one attempt early.
RetryLeftOneShort(run) == run.attempts[run.running] < run.retries[run.running]

\* Whether a failed attempt of the running task is followed by another one.
RetryLeft(run) == run.attempts[run.running] <= run.retries[run.running]

\* Bookkeeping when the running task's operation has ended: a truthy result
\* completes the task; a falsy result or an exception is a failed attempt,
\* retried while retries are left, and then the task is failed.  The tasks
\* that depend on a failed task are never eligible again.
EndTask(run) ==
    LET t == run.running
    IN  IF run.outcome = "ok"
        THEN [run EXCEPT !.completed = @ \cup {t},
                         !.running = None, !.outcome = None]
        ELSE IF RetryLeft(run)
        THEN [run EXCEPT !.running = None, !.outcome = None]
        ELSE [run EXCEPT !.failed = @ \cup {t},
                         !.running = None, !.outcome = None]

\* No task runs and none is eligible: the run is over.
RunOver(run) == run.active /\ run.running = None /\ Eligible(run) = {}

\* A variant of FinishRun that reports only the tasks that were invoked.
FinishRunInvokedOnly(run) == [run EXCEPT !.active = FALSE]

\* A variant of FinishRun that fails the tasks that could not run but never
\* hands the results back.
FinishRunStillActive(run) == [run EXCEPT !.failed = @ \cup Pending(run)]

\* The end of a run: a task whose prerequisite never completed (it failed,
\* or was never eligible) is failed without having been invoked; the results
\* are (completed, failed).
FinishRun(run) ==
    [run EXCEPT !.failed = @ \cup Pending(run), !.active = FALSE]

(***************************************************************************)
(* Exceptions.  Raising cls(message, **kwargs) raises cls, unless the      *)
(* constructor does not take one of the keywords: then Python raises       *)
(* TypeError in its place.                                                 *)
(***************************************************************************)

\* StackError.__init__(self, message, errors=None, name=__name__, log=True)
StackErrorKeywords == {"errors", "name", "log"}

StackError(kwargs) ==
    IF kwargs \subseteq StackErrorKeywords THEN "StackError" ELSE "TypeError"

\* An error of the provider's client library (boto).
ProviderError == "ProviderError"

(***************************************************************************)
(* Resources.  The stack of the model holds two security groups and an     *)
(* ingress rule between them.                                              *)
(***************************************************************************)

ResourceNames == {"sg", "src", "ing"}

\* The resource definitions a manifest gives (flat mappings).
Definition(n) ==
    CASE n = "sg"  -> [local_name |-> "sg", type |-> "SecurityGroup",
                       group_name |-> None, src_security_group_name |-> None]
      [] n = "src" -> [local_name |-> "src", type |-> "SecurityGroup",
                       group_name |-> None, src_security_group_name |-> None]
      [] n = "ing" -> [local_name |-> "ing", type |-> "SecurityGroupIngress",
                       group_name |-> "sg", src_security_group_name |-> "src"]

\* Resource.__init__ followed by deserialize(data): no stack, not available,
\* no provider id.
NewResource(data) ==
    [local_name |-> data.local_name, type |-> data.type,
     stack |-> None, available |-> FALSE,
     group_id |-> None, src_group_id |-> None,
     group_name |-> data.group_name,
     src_security_group_name |-> data.src_security_group_name]

\* The reference a resource holds once add_resource has attached it.
TheStack == "stack"

\* resource.local_name: the property reads the attribute _local_name (an
\* object written as its __dict__ has the attribute under that name).
LocalNameOf(resource) ==
    IF "_local_name" \in DOMAIN resource THEN resource["_local_name"]
    ELSE resource.local_name

\* A variant of get_resource_by_name that keeps looking after a match.
get_resource_by_name_last(local_name) ==
    LET hits == {i \in DOMAIN resources :
                    LocalNameOf(res[resources[i]]) = local_name}
    IN  IF hits = {} THEN None
        ELSE resources[CHOOSE i \in hits : \A j \in hits : i >= j]

\* Stack.get_resource_by_name: the first resource of the list with that
\* local name, or None.
get_resource_by_name(local_name) ==
    LET hits == {i \in DOMAIN resources :
                    LocalNameOf(res[resources[i]]) = local_name}
    IN  IF hits = {} THEN None
        ELSE resources[CHOOSE i \in hits : \A j \in hits : i <= j]

\* SecurityGroup.get_dependencies and SecurityGroupIngress.get_dependencies:
\* the list of the resources that must be created first.
get_dependencies(r) ==
    IF res[r].type = "SecurityGroupIngress"
    THEN LET group == get_resource_by_name(res[r].group_name)
             src_group == get_resource_by_name(res[r].src_security_group_name)
         IN  (IF group # None THEN <<group>> ELSE <<>>)
             \o (IF src_group # None THEN <<src_group>> ELSE <<>>)
    ELSE <<>>

Range(seq) == {seq[i] : i \in DOMAIN seq}

\* d[k] = v on a mapping
SetKey(d, k, v) == [x \in (DOMAIN d) \cup {k} |-> IF x = k THEN v ELSE d[x]]

\* The inner loop of _get_inverse_dependencies: for dep in get_dependencies().
RECURSIVE InverseOfDeps(_, _, _)
InverseOfDeps(inv, r, deps) ==
    IF deps = <<>> THEN inv
    ELSE LET dep == Head(deps)
             inv1 == IF dep \notin DOMAIN inv THEN SetKey(inv, dep, <<>>) ELSE inv
         IN  InverseOfDeps(SetKey(inv1, dep, Append(inv1[dep], r)), r, Tail(deps))

\* The outer loop of _get_inverse_dependencies: for resource in resources;
\* the entry of the resource is set to the empty list, then its dependencies
\* are visited.
RECURSIVE InverseLoop(_, _)
InverseLoop(inv, rs) ==
    IF rs = <<>> THEN inv
    ELSE InverseLoop(
            InverseOfDeps(SetKey(inv, Head(rs), <<>>), Head(rs),
                          get_dependencies(Head(rs))),
            Tail(rs))

\* Stack._get_inverse_dependencies(resources)
get_inverse_dependencies(rs) == InverseLoop(<<>>, rs)

\* A variant of ProvisionTasks that hands the stack's retry setting to the
\* tasks.
ProvisionTasksRetried(rs) ==
    [i \in DOMAIN rs |->
        create_task(rs[i], Range(get_dependencies(rs[i])), settings.retries)]

\* A variant of ProvisionTasks that names only the first dependency of a
\* resource as prerequisite.
ProvisionTasksFirstOnly(rs) ==
    [i \in DOMAIN rs |->
        create_task(rs[i],
                    IF get_dependencies(rs[i]) = <<>> THEN {}
                    ELSE {Head(get_dependencies(rs[i]))}, 0)]

\* A variant of ProvisionTasks that declares no prerequisites.
ProvisionTasksUnordered(rs) ==
    [i \in DOMAIN rs |-> create_task(rs[i], {}, 0)]

\* A variant of ProvisionTasks that drops the prerequisites that are not
\* among the resources given.
ProvisionTasksWithin(rs) ==
    [i \in DOMAIN rs |->
        create_task(rs[i], Range(get_dependencies(rs[i])) \cap Range(rs), 0)]

\* The task list provision_resources builds: one create task per resource,
\* its prerequisites the local names of its dependencies.
ProvisionTasks(rs) ==
    [i \in DOMAIN rs |-> create_task(rs[i], Range(get_dependencies(rs[i])), 0)]

\* The task list deprovision_resources builds: one destroy task per
\* resource, its prerequisites the resource's inverse dependencies.
DeprovisionTasks(rs) ==
    LET inverse_dependencies == get_inverse_dependencies(rs)
    IN  [i \in DOMAIN rs |->
            create_task(rs[i], Range(inverse_dependencies[rs[i]]), 0)]

\* A variant of full_msg that leaves the completed tasks out.
full_msg_failed_only(msg, results) ==
    [msg |-> msg, Completed |-> {}, Failed |-> results.failed]

\* '{}.\nCompleted={}\nFailed={}'.format(msg, results.completed,
\* results.failed): the text tasks_passed logs and raises.
full_msg(msg, results) ==
    [msg |-> msg, Completed |-> results.completed, Failed |-> results.failed]

\* A variant of tasks_passed that tolerates failures once a task completed.
tasks_passed_if_any(results, exception) ==
    IF Cardinality(results.failed) > 0 /\ results.completed = {}
    THEN IF exception # None THEN exception ELSE "False"
    ELSE "True"

\* A variant of tasks_passed that never raises.
tasks_passed_quietly(results, exception) ==
    IF Cardinality(results.failed) > 0 THEN "False" ELSE "True"

\* tasks_passed(results, logger, msg, exception): the exception raised when
\* a task failed and an exception class was given, otherwise whether all
\* tasks completed.
tasks_passed(results, exception) ==
    IF Cardinality(results.failed) > 0
    THEN IF exception # None THEN exception ELSE "False"
    ELSE "True"

NoFrame == [res |-> None, op |-> None]

\* The caller's view of an operation: what was called, on what, and what it
\* returned or raised (result), with a record of the state before the call
\* (preAvailable, preStack, preCloud), of whether the decorated function was
\* called (worked), and of the direct calls that came before (past).  For a
\* call of the stack: the resource operations its tasks have invoked
\* (invoked) and the message of the exception it raised (message).
NoCall ==
    [op |-> None, target |-> None, subset |-> <<>>, result |-> None,
     worked |-> FALSE, preAvailable |-> FALSE, preStack |-> None,
     preCloud |-> {}, past |-> <<>>, invoked |-> {}, message |-> None]

\* No mapping has been made or handed over.
NoData == [op |-> None, kind |-> None, mapping |-> <<>>, made |-> None]

\* No Stack object has been made.
NoStack == [local_name |-> None, global_name |-> None, tags |-> <<>>]

\* Stack.__init__: the tags stack_name and stack_creation, and the global
\* name '{stack_name}_{stack_creation}' (its characters).
MadeStack ==
    [local_name |-> "t", global_name |-> <<"t", "_", "1">>,
     tags |-> [stack_name |-> "t", stack_creation |-> "1"]]

\* The stack side at rest, before any stack has been made.
StackIdle ==
    /\ resources = <<>>
    /\ res = [n \in ResourceNames |-> NewResource(Definition(n))]
    /\ settings = [retries |-> 0, delay |-> 0]
    /\ cloud = {}
    /\ srun = NoRun
    /\ rrun = NoRun
    /\ frame = NoFrame
    /\ call = NoCall
    /\ nops = 0
    /\ dict = NoData
    /\ stack = NoStack
    /\ store = <<>>

(***************************************************************************)
(* The create/destroy guards of Resource and the resource operations.      *)
(***************************************************************************)

Bool(b) == IF b THEN "True" ELSE "False"

\* What the executor makes of the value a task operation returned or raised.
OutcomeOf(result) ==
    CASE result = "True" -> "ok"
      [] result \in {"False", "None"} -> "falsy"
      [] OTHER -> "raise"

\* A variant of validate_create_guard that checks the stack first.
validate_create_guard_stack_first(r) ==
    IF res[r].stack = None THEN "raise"
    ELSE IF ~res[r].available THEN "func" ELSE "skip"

\* Resource.validate_create, before func: an available resource is left
\* alone ("skip"); an unavailable one without a stack raises; otherwise func
\* is called.
validate_create_guard(r) ==
    IF ~res[r].available
    THEN IF res[r].stack = None THEN "raise" ELSE "func"
    ELSE "skip"

\* A variant of validate_create_resp that takes a function that did not
\* return False to have made the resource available.
validate_create_resp_passed(passed, available) ==
    IF passed = "False" THEN "False" ELSE "True"

\* Resource.validate_create, after func returned passed.
validate_create_resp(passed, available) ==
    IF passed = "False" THEN "False" ELSE Bool(available)

\* A variant of validate_destroy_guard that checks the stack first.
validate_destroy_guard_stack_first(r) ==
    IF res[r].stack = None THEN "raise"
    ELSE IF res[r].available THEN "func" ELSE "skip"

\* Resource.validate_destroy, before func.
validate_destroy_guard(r) ==
    IF res[r].available
    THEN IF res[r].stack = None THEN "raise" ELSE "func"
    ELSE "skip"

\* Resource.validate_destroy, after func returned passed.
validate_destroy_resp(passed, available) ==
    IF passed = "False" THEN "False" ELSE Bool(~available)

\* The exception both guards raise for a resource without a stack:
\* StackError('Unknown parent stack...', logger=self._logger)
GuardError == StackError({"logger"})

\* The tasks of SecurityGroup.create
SecurityGroupCreateTasks ==
    <<create_task("create", {}, 0),
      create_task("tag", {"create"}, settings.retries),
      create_task("check", {"create"}, settings.retries)>>

\* What a provider lookup of the group of resource n can give: its id when
\* the group exists, nothing (the provider does not report it), or an error.
LookupResults(n) ==
    {None, "raise"} \cup (IF n # None /\ n \in cloud THEN {n} ELSE {})

\* An effect of a resource operation that ran to its end in one step: the
\* resource afterwards, the provider afterwards, and what the call gives
\* back (a returned value or the exception raised).
Effect(resource, provider, result) ==
    [resource |-> resource, cloud |-> provider, result |-> result]

\* SecurityGroup.destroy (the decorated function)
SecurityGroupDestroy(r) ==
    LET gone == [res[r] EXCEPT !.available = FALSE, !.group_id = None]
        done(provider) ==
            Effect(gone, provider, validate_destroy_resp("None", gone.available))
    IN  IF res[r].group_id = None
        THEN {done(cloud)}
        ELSE UNION {
            CASE found = "raise" -> {Effect(res[r], cloud, ProviderError)}
              [] found = None -> {done(cloud)}
              [] OTHER ->
                    \* conn.delete_security_group through catch_response_errors
                    {done(cloud \ {r}),
                     Effect(res[r], cloud, StackError({"log"})),
                     Effect(res[r], cloud, ProviderError)}
            : found \in LookupResults(res[r].group_id)}

\* SecurityGroupIngress._get_group_id for a field that is still unset
GroupIdResults(name, id) ==
    IF name # None /\ id = None THEN LookupResults(name) ELSE {id}

\* SecurityGroupIngress.create (the decorated function): look the two group
\* ids up, then authorize the rule.
SecurityGroupIngressCreate(r) ==
    UNION {
        IF g = "raise" THEN {Effect(res[r], cloud, ProviderError)}
        ELSE UNION {
            LET r1 == [res[r] EXCEPT !.group_id = g]
            IN  IF s = "raise" THEN {Effect(r1, cloud, ProviderError)}
                ELSE LET r2 == [r1 EXCEPT !.src_group_id = s]
                         r3 == [r2 EXCEPT !.available = TRUE]
                     IN  {Effect(r3, cloud \cup {r},
                                 validate_create_resp("None", r3.available)),
                          Effect(r2, cloud, StackError({"log"})),
                          Effect(r2, cloud, ProviderError)}
            : s \in GroupIdResults(res[r].src_security_group_name,
                                   res[r].src_group_id)}
        : g \in GroupIdResults(res[r].group_name, res[r].group_id)}

\* SecurityGroupIngress.destroy (the decorated function): look the two group
\* ids up, then revoke the rule.
SecurityGroupIngressDestroy(r) ==
    UNION {
        IF g = "raise" THEN {Effect(res[r], cloud, ProviderError)}
        ELSE UNION {
            LET r1 == [res[r] EXCEPT !.group_id = g]
            IN  IF s = "raise" THEN {Effect(r1, cloud, ProviderError)}
                ELSE LET r2 == [r1 EXCEPT !.src_group_id = s]
                         r3 == [r2 EXCEPT !.available = FALSE]
                     IN  {Effect(r3, cloud \ {r},
                                 validate_destroy_resp("None", r3.available)),
                          Effect(r2, cloud, StackError({"log"})),
                          Effect(r2, cloud, ProviderError)}
            : s \in GroupIdResults(res[r].src_security_group_name,
                                   res[r].src_group_id)}
        : g \in GroupIdResults(res[r].group_name, res[r].group_id)}

\* The call r.create() or r.destroy(), up to the point where it returns,
\* raises, or (next = "run") has started the task run of
\* SecurityGroup.create.  worked tells whether the decorated function was
\* called.
Entry(next, effect, worked) ==
    [next |-> next, resource |-> effect.resource, cloud |-> effect.cloud,
     result |-> effect.result, worked |-> worked]

Enter(r, op) ==
    LET guard == IF op = "create" THEN validate_create_guard(r)
                 ELSE validate_destroy_guard(r)
        same(result) == Effect(res[r], cloud, result)
    IN  CASE guard = "skip" -> {Entry("return", same("True"), FALSE)}
          [] guard = "raise" -> {Entry("return", same(GuardError), FALSE)}
          [] OTHER ->
                IF op = "create"
                THEN IF res[r].type = "SecurityGroup"
                     THEN {Entry("run", same(None), TRUE)}
                     ELSE {Entry("return", e, TRUE) : e \in SecurityGroupIngressCreate(r)}
                ELSE IF res[r].type = "SecurityGroup"
                     THEN {Entry("return", e, TRUE) : e \in SecurityGroupDestroy(r)}
                     ELSE {Entry("return", e, TRUE) : e \in SecurityGroupIngressDestroy(r)}

\* The state of the resource side after the entry e of a call on r.
Entered(r, op, e) ==
    /\ res' = [res EXCEPT ![r] = e.resource]
    /\ cloud' = e.cloud
    /\ IF e.next = "run"
       THEN /\ rrun' = NewRun(SecurityGroupCreateTasks)
            /\ frame' = [res |-> r, op |-> op]
       ELSE UNCHANGED <<rrun, frame>>

\* A task of the run of SecurityGroup.create is picked and its operation
\* runs: _create_group, create_tags or _check_created.
RStart ==
    /\ frame.res # None
    /\ res[frame.res].type = "SecurityGroup"
    /\ \E t \in Eligible(rrun) :
        LET r == frame.res
            started == StartTask(rrun, t)
        IN  CASE t = "create" ->
                    IF res[r].group_id = None
                    THEN \/ /\ res' = [res EXCEPT ![r].group_id = r]
                            /\ cloud' = cloud \cup {r}
                            /\ rrun' = SetOutcome(started, "ok")
                         \/ /\ rrun' = SetOutcome(started, "raise")
                            /\ UNCHANGED <<res, cloud>>
                    ELSE /\ rrun' = SetOutcome(started, "ok")
                         /\ UNCHANGED <<res, cloud>>
              [] t = "tag" ->
                    /\ \E o \in Outcomes : rrun' = SetOutcome(started, o)
                    /\ UNCHANGED <<res, cloud>>
              [] t = "check" ->
                    /\ \E found \in LookupResults(res[r].group_id) :
                        rrun' = SetOutcome(started,
                                    CASE found = "raise" -> "raise"
                                      [] found = None -> "falsy"
                                      [] OTHER -> "ok")
                    /\ UNCHANGED <<res, cloud>>
    /\ UNCHANGED <<resources, settings, srun, frame, call, nops, dict, stack, store, execVars>>

\* The executor's bookkeeping for the task of SecurityGroup.create that ran.
REnd ==
    /\ rrun.running # None
    /\ rrun' = EndTask(rrun)
    /\ UNCHANGED <<resources, res, settings, cloud, srun, frame, call, nops, dict, stack, store, execVars>>

\* The run of SecurityGroup.create is over: available is set from
\* tasks_passed, the guard computes its response, and create() returns to
\* the stack's run or to the caller.
RFinish ==
    /\ frame.res # None
    /\ res[frame.res].type = "SecurityGroup"
    /\ RunOver(rrun)
    /\ LET r == frame.res
           results == FinishRun(rrun)
           available == (tasks_passed(results, None) = "True")
           resp == validate_create_resp("None", available)
       IN  /\ rrun' = NoRun
           /\ res' = [res EXCEPT ![r].available = available]
           /\ frame' = NoFrame
           /\ IF srun.active
              THEN /\ srun' = SetOutcome(srun, OutcomeOf(resp))
                   /\ UNCHANGED call
              ELSE /\ call' = [call EXCEPT !.result = resp]
                   /\ UNCHANGED srun
    /\ UNCHANGED <<resources, settings, cloud, nops, dict, stack, store, execVars>>

(***************************************************************************)
(* Generic runs: the executor applied to task graphs drawn from a bounded  *)
(* family.  opLog records, per task, which invocations succeeded.          *)
(***************************************************************************)

TaskNames == {"t1", "t2", "t3"}

\* A prerequisite name that no submitted task carries.
Missing == "tx"

\* Prerequisites form a DAG: a task names only tasks before it, or Missing.
Before(n) ==
    CASE n = "t1" -> {}
      [] n = "t2" -> {"t1", Missing}
      [] n = "t3" -> {"t1", "t2"}

\* A task carries the default retries=0 or the configured count.
RetryInputs == {0, MaxRetries}

GraphInputs ==
    {<<create_task("t1", d1, r1), create_task("t2", d2, r2),
       create_task("t3", d3, r3)>> :
        <<d1, d2, d3, r1, r2, r3>> \in
            (SUBSET Before("t1")) \X (SUBSET Before("t2")) \X (SUBSET Before("t3"))
            \X RetryInputs \X RetryInputs \X RetryInputs}

InitExec ==
    /\ \E tasks \in GraphInputs : exec = NewRun(tasks)
    /\ opLog = [n \in TaskNames |-> <<>>]
    /\ StackIdle

ExecStart ==
    /\ \E t \in Eligible(exec) : exec' = StartTask(exec, t)
    /\ UNCHANGED <<opLog, stackVars>>

ExecInvoke ==
    /\ exec.running # None
    /\ exec.outcome = None
    /\ \E o \in Outcomes :
        /\ exec' = SetOutcome(exec, o)
        /\ opLog' = [opLog EXCEPT ![exec.running] = Append(@, o = "ok")]
    /\ UNCHANGED stackVars

ExecEnd ==
    /\ exec.running # None
    /\ exec.outcome # None
    /\ exec' = EndTask(exec)
    /\ UNCHANGED <<opLog, stackVars>>

ExecFinish ==
    /\ RunOver(exec)
    /\ exec' = FinishRun(exec)
    /\ UNCHANGED <<opLog, stackVars>>

NextExec == ExecStart \/ ExecInvoke \/ ExecEnd \/ ExecFinish

SpecExec == InitExec /\ [][NextExec]_vars

\* The executor's loop runs on until the run is over.
FairSpecExec == SpecExec /\ WF_vars(NextExec)

(***************************************************************************)
(* Stack orchestration: provision_resources and deprovision_resources.     *)
(***************************************************************************)

\* The number of operations the caller starts.
MaxOps == 2

\* The largest settings.retries a stack is configured with.
MaxSettingRetries == 1

\* The orders in which a manifest lists the resources: the ingress rule
\* after, between and before the groups it names.
ManifestOrders ==
    {<<"sg", "src", "ing">>, <<"sg", "ing", "src">>, <<"ing", "sg", "src">>}

\* The lists of resources a caller hands to provision_resources and
\* deprovision_resources: the non-empty sublists of the stack's list.
RECURSIVE SubLists(_)
SubLists(seq) ==
    IF seq = <<>> THEN {<<>>}
    ELSE LET rest == SubLists(Tail(seq))
         IN  rest \cup {<<Head(seq)>> \o x : x \in rest}

ResourceLists == SubLists(resources) \ {<<>>}

\* Stack.add_resource: the stack reference is set on the resource.
add_resource(resource) == [resource EXCEPT !.stack = TheStack]

\* No operation is in progress.
Idle ==
    /\ ~srun.active
    /\ frame.res = None
    /\ call.op = None \/ call.result # None

\* A stack made from a manifest: Stack.make, which attaches every resource
\* through deserialize_resources and add_resource.
Init ==
    /\ exec = NoRun
    /\ opLog = [n \in TaskNames |-> <<>>]
    /\ resources \in ManifestOrders
    /\ res = [n \in ResourceNames |-> add_resource(NewResource(Definition(n)))]
    /\ settings \in [retries : 0..MaxSettingRetries, delay : {0}]
    /\ cloud = {}
    /\ srun = NoRun
    /\ rrun = NoRun
    /\ frame = NoFrame
    /\ call = NoCall
    /\ nops = 0
    /\ dict = NoData
    /\ stack = MadeStack
    /\ store = <<>>

\* Stack.provision_resources(resources=None|rs), up to run_tasks(tasks)
Provision ==
    /\ Idle
    /\ nops < MaxOps
    /\ \E given \in ResourceLists \cup {<<>>} :
        \* the empty list stands for resources=None: all of the stack's
        LET rs == IF given = <<>> THEN resources ELSE given
        IN  /\ srun' = NewRun(ProvisionTasks(rs))
            /\ call' = [NoCall EXCEPT !.op = "provision", !.subset = rs]
    /\ nops' = nops + 1
    /\ UNCHANGED <<resources, res, settings, cloud, rrun, frame, dict, stack, store, execVars>>

\* Stack.deprovision_resources(resources=None|rs), up to run_tasks(tasks)
Deprovision ==
    /\ Idle
    /\ nops < MaxOps
    /\ \E given \in ResourceLists \cup {<<>>} :
        LET rs == IF given = <<>> THEN resources ELSE given
        IN  /\ srun' = NewRun(DeprovisionTasks(rs))
            /\ call' = [NoCall EXCEPT !.op = "deprovision", !.subset = rs]
    /\ nops' = nops + 1
    /\ UNCHANGED <<resources, res, settings, cloud, rrun, frame, dict, stack, store, execVars>>

\* A variant of TaskOp with the two operations exchanged.
TaskOpInverse == IF call.op = "provision" THEN "destroy" ELSE "create"

\* The operation of the stack's tasks: resource.create or resource.destroy.
TaskOp == IF call.op = "provision" THEN "create" ELSE "destroy"

\* msg='Failed to provision resources' / 'Failed to deprovision resources'
TaskMsg == "Failed to " \o call.op \o " resources"

\* The executor picks a task of the stack's run and calls the resource's
\* create or destroy.
SStart ==
    /\ \E t \in Eligible(srun) :
        \E e \in Enter(t, TaskOp) :
            /\ Entered(t, TaskOp, e)
            /\ srun' = IF e.next = "run" THEN StartTask(srun, t)
                       ELSE SetOutcome(StartTask(srun, t), OutcomeOf(e.result))
    /\ call' = [call EXCEPT !.invoked = @ \cup {TaskOp}]
    /\ UNCHANGED <<resources, settings, nops, dict, stack, store, execVars>>

\* The executor's bookkeeping for the resource operation that returned.
SEnd ==
    /\ srun.running # None
    /\ srun.outcome # None
    /\ srun' = EndTask(srun)
    /\ UNCHANGED <<resources, res, settings, cloud, rrun, frame, call, nops, dict, stack, store, execVars>>

\* run_tasks returns and tasks_passed(results, ..., exception=StackError)
\* raises the aggregate error or lets the call return.
SFinish ==
    /\ RunOver(srun)
    /\ LET results == FinishRun(srun)
           passed == tasks_passed(results, StackError({}))
       IN  /\ srun' = results
           /\ call' = [call EXCEPT
                        !.result = IF passed = "True" THEN "returned" ELSE passed,
                        !.message = IF passed = "True" THEN None
                                    ELSE full_msg(TaskMsg, results)]
    /\ UNCHANGED <<resources, res, settings, cloud, rrun, frame, nops, dict, stack, store, execVars>>

Next ==
    \/ Provision
    \/ Deprovision
    \/ SStart
    \/ SEnd
    \/ SFinish
    \/ RStart
    \/ REnd
    \/ RFinish

Spec == Init /\ [][Next]_vars

\* A started operation runs on until it returns or raises; the caller may
\* stop calling at any time.
FairSpec == Spec /\ WF_vars(SStart \/ SEnd \/ SFinish \/ RStart \/ REnd \/ RFinish)

(***************************************************************************)
(* Resources used directly: create() and destroy() called on a resource,   *)
(* whose stack reference may be unset.                                     *)
(***************************************************************************)

\* Resources as the unit tests build them: constructed and deserialized
\* from a mapping, not yet handed a stack.
InitRes ==
    /\ exec = NoRun
    /\ opLog = [n \in TaskNames |-> <<>>]
    /\ resources = <<"sg", "src", "ing">>
    /\ res = [n \in ResourceNames |-> NewResource(Definition(n))]
    /\ settings \in [retries : 0..MaxSettingRetries, delay : {0}]
    /\ cloud = {}
    /\ srun = NoRun
    /\ rrun = NoRun
    /\ frame = NoFrame
    /\ call = NoCall
    /\ nops = 0
    /\ dict = NoData
    /\ stack = MadeStack
    /\ store = <<>>

\* The number of direct calls the caller makes.
MaxCalls == 3

\* The calls before the next one: the finished call joins the earlier ones.
Past ==
    IF call.op = None THEN <<>>
    ELSE call.past \o <<[op |-> call.op, target |-> call.target,
                         result |-> call.result]>>

\* The caller calls r.create() or r.destroy().
CallResource(r, op) ==
    /\ Idle
    /\ nops < MaxCalls
    /\ \E e \in Enter(r, op) :
        /\ Entered(r, op, e)
        /\ call' = [NoCall EXCEPT !.op = op, !.target = r,
                        !.result = e.result, !.worked = e.worked,
                        !.preAvailable = res[r].available,
                        !.preStack = res[r].stack,
                        !.preCloud = cloud,
                        !.past = Past]
    /\ nops' = nops + 1
    /\ UNCHANGED <<resources, settings, srun, dict, stack, store, execVars>>

\* The resources the caller works on: one of each type.
Targets == {"sg", "ing"}

Create == \E r \in Targets : CallResource(r, "create")

Destroy == \E r \in Targets : CallResource(r, "destroy")

\* resource.stack = value (the property setter)
SetStack ==
    /\ Idle
    /\ \E r \in Targets, value \in {None, TheStack} :
        /\ res[r].stack # value
        /\ res' = [res EXCEPT ![r].stack = value]
    /\ UNCHANGED <<resources, settings, cloud, srun, rrun, frame, call, nops, dict, stack, store, execVars>>

NextRes == Create \/ Destroy \/ SetStack \/ RStart \/ REnd \/ RFinish

SpecRes == InitRes /\ [][NextRes]_vars

(***************************************************************************)
(* The life of a resource: create(), destroy() and sync() called on a      *)
(* Volume and on a SecurityGroup.                                          *)
(***************************************************************************)

\* Volume.__init__ followed by deserialize of a mapping with the local name
\* and add_resource: not available, no volume id.
NewVolume(local_name) ==
    [local_name |-> local_name, type |-> "Volume", stack |-> TheStack,
     available |-> FALSE, volume_id |-> None]

\* The tasks of Volume.create
VolumeCreateTasks ==
    <<create_task("check_snapshot", {}, 0),
      create_task("create_volume", {"check_snapshot"}, 0),
      create_task("create_tags", {"create_volume"}, 0),
      create_task("check_created", {"create_volume"}, settings.retries)>>

\* get_volume(volume_id): the volume when the provider reports it, nothing,
\* or an error.
VolumeLookupResults(id) ==
    {None, "raise"} \cup (IF id # None /\ id \in cloud THEN {id} ELSE {})

\* Volume.destroy (the decorated function): a failed delete makes a
\* StackError that is not raised.
VolumeDestroy(r) ==
    LET gone == [res[r] EXCEPT !.volume_id = None, !.available = FALSE]
        done(provider) ==
            Effect(gone, provider, validate_destroy_resp("None", gone.available))
    IN  IF res[r].volume_id = None
        THEN {done(cloud)}
        ELSE UNION {
            CASE found = "raise" -> {Effect(res[r], cloud, ProviderError)}
              [] found = None -> {done(cloud)}
              [] OTHER -> {done(cloud \ {r}), done(cloud),
                           Effect(res[r], cloud, ProviderError)}
            : found \in VolumeLookupResults(res[r].volume_id)}

\* get_security_group(group_id=None, group_name=None, stack=None)
get_security_group_keywords == {"group_id", "group_name", "stack"}

\* SecurityGroup.sync: without a group id the resource is marked unavailable;
\* with one, the tags are synchronized and the group is looked up with
\* get_security_group(group_ids=...).
SecurityGroupSync(r) ==
    IF res[r].group_id # None
    THEN {Effect(res[r], cloud, ProviderError),
          Effect(res[r], cloud,
                 IF {"group_ids"} \subseteq get_security_group_keywords
                 THEN "None" ELSE "TypeError")}
    ELSE {Effect([res[r] EXCEPT !.available = FALSE], cloud, "None")}

\* The caller's record of a call that has just been made on r.
NewCall(r, op, result, worked) ==
    [NoCall EXCEPT !.op = op, !.target = r,
                   !.result = result, !.worked = worked,
                   !.preAvailable = res[r].available,
                   !.preStack = res[r].stack,
                   !.preCloud = cloud,
                   !.past = Past]

\* The caller calls create() on the volume: the guard, and then the start of
\* the task run of Volume.create.
VolumeCreate ==
    /\ Idle
    /\ nops < MaxCalls
    /\ \E r \in {n \in DOMAIN res : res[n].type = "Volume"} :
        LET guard == validate_create_guard(r)
        IN  CASE guard = "skip" ->
                    /\ call' = NewCall(r, "create", "True", FALSE)
                    /\ UNCHANGED <<rrun, frame>>
              [] guard = "raise" ->
                    /\ call' = NewCall(r, "create", GuardError, FALSE)
                    /\ UNCHANGED <<rrun, frame>>
              [] OTHER ->
                    /\ call' = NewCall(r, "create", None, TRUE)
                    /\ rrun' = NewRun(VolumeCreateTasks)
                    /\ frame' = [res |-> r, op |-> "create"]
    /\ nops' = nops + 1
    /\ UNCHANGED <<resources, res, settings, cloud, srun, dict, stack, store, execVars>>

\* The caller calls destroy() on the volume.
VolumeDestroyCall ==
    /\ Idle
    /\ nops < MaxCalls
    /\ \E r \in {n \in DOMAIN res : res[n].type = "Volume"} :
        LET guard == validate_destroy_guard(r)
            entries ==
                CASE guard = "skip" -> {Entry("return", Effect(res[r], cloud, "True"), FALSE)}
                  [] guard = "raise" -> {Entry("return", Effect(res[r], cloud, GuardError), FALSE)}
                  [] OTHER -> {Entry("return", e, TRUE) : e \in VolumeDestroy(r)}
        IN  \E e \in entries :
                /\ res' = [res EXCEPT ![r] = e.resource]
                /\ cloud' = e.cloud
                /\ call' = NewCall(r, "destroy", e.result, e.worked)
    /\ nops' = nops + 1
    /\ UNCHANGED <<resources, settings, srun, rrun, frame, dict, stack, store, execVars>>

\* A task of the run of Volume.create is picked and its operation runs:
\* _check_snapshot, _create_volume, _create_tags or _check_created.
VStart ==
    /\ frame.res # None
    /\ res[frame.res].type = "Volume"
    /\ \E t \in Eligible(rrun) :
        LET r == frame.res
            started == StartTask(rrun, t)
        IN  CASE t = "check_snapshot" ->
                    /\ \E o \in {"ok", "raise"} : rrun' = SetOutcome(started, o)
                    /\ UNCHANGED <<res, cloud>>
              [] t = "create_volume" ->
                    IF res[r].volume_id = None
                    THEN \/ /\ res' = [res EXCEPT ![r].volume_id = r]
                            /\ cloud' = cloud \cup {r}
                            /\ rrun' = SetOutcome(started, "ok")
                         \/ /\ rrun' = SetOutcome(started, "raise")
                            /\ UNCHANGED <<res, cloud>>
                    ELSE /\ rrun' = SetOutcome(started, "ok")
                         /\ UNCHANGED <<res, cloud>>
              [] t = "create_tags" ->
                    /\ \E o \in {"ok", "raise"} : rrun' = SetOutcome(started, o)
                    /\ UNCHANGED <<res, cloud>>
              [] t = "check_created" ->
                    \E found \in VolumeLookupResults(res[r].volume_id) :
                        \/ /\ found = "raise"
                           /\ rrun' = SetOutcome(started, "raise")
                           /\ UNCHANGED <<res, cloud>>
                        \/ \* no volume, or one whose status is not 'available'
                           /\ found # "raise"
                           /\ res' = [res EXCEPT ![r].available = FALSE]
                           /\ rrun' = SetOutcome(started, "falsy")
                           /\ UNCHANGED cloud
                        \/ /\ found \notin {None, "raise"}
                           /\ res' = [res EXCEPT ![r].available = TRUE]
                           /\ rrun' = SetOutcome(started, "ok")
                           /\ UNCHANGED cloud
    /\ UNCHANGED <<resources, settings, srun, frame, call, nops, dict, stack, store, execVars>>

\* The run of Volume.create is over: create returns False when a task
\* failed and nothing otherwise, and the guard computes its response.
VFinish ==
    /\ frame.res # None
    /\ res[frame.res].type = "Volume"
    /\ RunOver(rrun)
    /\ LET r == frame.res
           results == FinishRun(rrun)
           passed == IF Cardinality(results.failed) > 0 THEN "False" ELSE "None"
       IN  call' = [call EXCEPT !.result =
                        validate_create_resp(passed, res[r].available)]
    /\ rrun' = NoRun
    /\ frame' = NoFrame
    /\ UNCHANGED <<resources, res, settings, cloud, srun, nops, dict, stack, store, execVars>>

\* The caller calls sync() on the security group.
Sync ==
    /\ Idle
    /\ nops < MaxCalls
    /\ \E r \in {n \in DOMAIN res : res[n].type = "SecurityGroup"} :
        \E e \in SecurityGroupSync(r) :
            /\ res' = [res EXCEPT ![r] = e.resource]
            /\ cloud' = e.cloud
            /\ call' = NewCall(r, "sync", e.result, TRUE)
    /\ nops' = nops + 1
    /\ UNCHANGED <<resources, settings, srun, rrun, frame, dict, stack, store, execVars>>

\* The caller calls create() or destroy() on the security group.
GroupCall == \E op \in {"create", "destroy"} : CallResource("sg", op)

\* A stack with a security group and a volume, both attached.
InitLife ==
    /\ exec = NoRun
    /\ opLog = [n \in TaskNames |-> <<>>]
    /\ resources = <<"sg", "vol">>
    /\ res = [n \in {"sg", "vol"} |->
                IF n = "sg" THEN add_resource(NewResource(Definition("sg")))
                ELSE NewVolume("vol")]
    /\ settings \in [retries : 0..MaxSettingRetries, delay : {0}]
    /\ cloud = {}
    /\ srun = NoRun
    /\ rrun = NoRun
    /\ frame = NoFrame
    /\ call = NoCall
    /\ nops = 0
    /\ dict = NoData
    /\ stack = MadeStack
    /\ store = <<>>

NextLife ==
    \/ GroupCall
    \/ Sync
    \/ VolumeCreate
    \/ VolumeDestroyCall
    \/ RStart
    \/ REnd
    \/ RFinish
    \/ VStart
    \/ VFinish

SpecLife == InitLife /\ [][NextLife]_vars

(***************************************************************************)
(* Serialization: Resource.serialize and Resource.deserialize, with the    *)
(* helpers of shepherd/common/utils.py.  A key of a mapping is the         *)
(* sequence of its characters; an object is the mapping of its attribute   *)
(* names to values (its __dict__); values are written as text.             *)
(***************************************************************************)

Capitals ==
    <<"A", "B", "C", "D", "E", "F", "G", "H", "I", "J", "K", "L", "M", "N",
      "O", "P", "Q", "R", "S", "T", "U", "V", "W", "X", "Y", "Z">>

Smalls ==
    <<"a", "b", "c", "d", "e", "f", "g", "h", "i", "j", "k", "l", "m", "n",
      "o", "p", "q", "r", "s", "t", "u", "v", "w", "x", "y", "z">>

Upper == Range(Capitals)

Lower == Range(Smalls)

Digits == {"0", "1", "2", "3", "4", "5", "6", "7", "8", "9"}

\* str.lower() on one character
LowerOf(c) ==
    IF c \in Upper THEN Smalls[CHOOSE i \in DOMAIN Capitals : Capitals[i] = c]
    ELSE c

\* The end of the longest run of [a-z] that starts at index i of str.
RECURSIVE LowerRunEnd(_, _)
LowerRunEnd(str, i) ==
    IF i + 1 <= Len(str) /\ str[i + 1] \in Lower THEN LowerRunEnd(str, i + 1)
    ELSE i

\* re.sub('(.)([A-Z][a-z]+)', r'\1_\2', str), from index i on
RECURSIVE Sub1(_, _)
Sub1(str, i) ==
    IF i > Len(str) THEN <<>>
    ELSE IF i + 2 <= Len(str) /\ str[i + 1] \in Upper /\ str[i + 2] \in Lower
    THEN LET e == LowerRunEnd(str, i + 2)
         IN  <<str[i], "_">> \o SubSeq(str, i + 1, e) \o Sub1(str, e + 1)
    ELSE <<str[i]>> \o Sub1(str, i + 1)

\* re.sub('([a-z0-9])([A-Z])', r'\1_\2', str), from index i on
RECURSIVE Sub2(_, _)
Sub2(str, i) ==
    IF i > Len(str) THEN <<>>
    ELSE IF i + 1 <= Len(str) /\ str[i] \in Lower \cup Digits /\ str[i + 1] \in Upper
    THEN <<str[i], "_", str[i + 1]>> \o Sub2(str, i + 2)
    ELSE <<str[i]>> \o Sub2(str, i + 1)

\* The two substitutions and lower() of pascal_to_underscore(pascal_str)
pascal_to_underscore_re(pascal_str) ==
    LET s1 == Sub1(pascal_str, 1)
        s2 == Sub2(s1, 1)
    IN  [i \in DOMAIN s2 |-> LowerOf(s2[i])]

\* The keys of the mappings, as the code spells them.
k_local_name == <<"l", "o", "c", "a", "l", "_", "n", "a", "m", "e">>
k_global_name == <<"g", "l", "o", "b", "a", "l", "_", "n", "a", "m", "e">>
k_provider == <<"p", "r", "o", "v", "i", "d", "e", "r">>
k_type == <<"t", "y", "p", "e">>
k_available == <<"a", "v", "a", "i", "l", "a", "b", "l", "e">>
k_tags == <<"t", "a", "g", "s">>
k_group_id == <<"g", "r", "o", "u", "p", "_", "i", "d">>
k_group_description == <<"g", "r", "o", "u", "p", "_", "d", "e", "s", "c", "r", "i", "p", "t", "i", "o", "n">>
k_volume_id == <<"v", "o", "l", "u", "m", "e", "_", "i", "d">>
k_volumeid == <<"v", "o", "l", "u", "m", "e", "i", "d">>
k_size == <<"s", "i", "z", "e">>
k_group_name == <<"g", "r", "o", "u", "p", "_", "n", "a", "m", "e">>

\* Keys as a manifest may spell them, and a key no resource knows.
K_LocalName == <<"L", "o", "c", "a", "l", "N", "a", "m", "e">>
K_VolumeId == <<"V", "o", "l", "u", "m", "e", "I", "d">>
K_GroupId == <<"G", "r", "o", "u", "p", "I", "d">>
K_Comment == <<"C", "o", "m", "m", "e", "n", "t">>

\* The same mapping, with the value of every key worked out.
Evaluated(f) == f @@ <<>>

\* The keys spelled above.
Keys ==
    {k_local_name, k_global_name, k_provider, k_type, k_available, k_tags,
     k_group_id, k_group_description, k_volume_id, k_volumeid, k_size,
     k_group_name, K_LocalName, K_VolumeId, K_GroupId, K_Comment}

\* What the substitutions make of each of these keys, computed once.
KeyNames == {<<key, pascal_to_underscore_re(key)>> : key \in Keys}

\* pascal_to_underscore(pascal_str): read from KeyNames for the keys
\* spelled above, computed for any other string.
pascal_to_underscore(pascal_str) ==
    IF pascal_str \in Keys
    THEN (CHOOSE k \in KeyNames : k[1] = pascal_str)[2]
    ELSE pascal_to_underscore_re(pascal_str)

\* A variant of setattrs that keeps every key of values, known or not.
setattrs_all_keys(obj, attrmap, values) ==
    LET name(key) ==
            IF pascal_to_underscore(key) \in DOMAIN attrmap
            THEN attrmap[pascal_to_underscore(key)] ELSE "_unknown"
        set == {name(key) : key \in DOMAIN values}
    IN  [a \in (DOMAIN obj) \cup set |->
            IF a \in set
            THEN values[CHOOSE key \in DOMAIN values : name(key) = a]
            ELSE obj[a]]

\* setattrs(obj, attrmap, values): for key in values, the attribute that
\* attrmap gives for pascal_to_underscore(key), if any, is set to
\* values[key].
setattrs(obj, attrmap, values) ==
    LET tmp_keys == {<<key, pascal_to_underscore(key)>> : key \in DOMAIN values}
        known == {k \in tmp_keys : k[2] \in DOMAIN attrmap}
        set == {attrmap[k[2]] : k \in known}
    IN  [a \in (DOMAIN obj) \cup set |->
            IF a \in set
            THEN values[(CHOOSE k \in known : attrmap[k[2]] = a)[1]]
            ELSE obj[a]]

\* getattrs(obj, attrmap): the mapping of the keys of attrmap whose
\* attribute the object has to the attribute's value.
getattrs(obj, attrmap) ==
    [key \in {k \in DOMAIN attrmap : attrmap[k] \in DOMAIN obj} |->
        obj[attrmap[key]]]

\* dict.update
update(d, e) ==
    [key \in (DOMAIN d) \cup (DOMAIN e) |->
        IF key \in DOMAIN e THEN e[key] ELSE d[key]]

Kinds == {"SecurityGroup", "SecurityGroupIngress", "Volume"}

\* Resource._attributes_map
ResourceAttributes ==
    (k_local_name :> "_local_name") @@ (k_global_name :> "_global_name")
    @@ (k_provider :> "_provider") @@ (k_type :> "_type")
    @@ (k_available :> "_available") @@ (k_tags :> "_tags")

\* self._attributes_map after __init__
attributes_map(kind) ==
    IF kind = "SecurityGroup"
    THEN update(ResourceAttributes,
                (k_group_id :> "_group_id")
                @@ (k_group_description :> "_group_description"))
    ELSE ResourceAttributes

\* The keys the deserialize of a kind handles itself, after the base class:
\* the if/elif chain over pascal_to_underscore(key).
DeserializedFields(kind) ==
    CASE kind = "Volume" ->
            (k_volumeid :> "_volume_id") @@ (k_size :> "_size")
      [] kind = "SecurityGroupIngress" ->
            (k_group_name :> "_group_name") @@ (k_group_id :> "_group_id")
      [] OTHER -> <<>>

\* The keys the serialize of a kind adds itself to the base class's result.
SerializedFields(kind) ==
    CASE kind = "Volume" ->
            (k_volume_id :> "_volume_id") @@ (k_size :> "_size")
      [] kind = "SecurityGroupIngress" ->
            (k_group_name :> "_group_name") @@ (k_group_id :> "_group_id")
      [] OTHER -> <<>>

\* The object after __init__
Constructed(kind) ==
    LET base == [_local_name |-> None, _global_name |-> None,
                 _provider |-> "aws", _type |-> kind, _stack |-> None,
                 _available |-> "False", _tags |-> <<>>]
    IN  CASE kind = "SecurityGroup" ->
                base @@ [_group_id |-> None, _group_description |-> None]
          [] kind = "SecurityGroupIngress" ->
                base @@ [_group_name |-> None, _group_id |-> None]
          [] kind = "Volume" ->
                base @@ [_volume_id |-> None, _size |-> None]

\* deserialize(data) of a kind
deserialize(kind, obj, values) ==
    setattrs(setattrs(obj, attributes_map(kind), values),
             DeserializedFields(kind), values)

\* serialize() of a kind
serialize(kind, obj) ==
    update(getattrs(obj, attributes_map(kind)),
           getattrs(obj, SerializedFields(kind)))

\* The attribute that holds the provider's id of a kind
IdAttribute(kind) == IF kind = "Volume" THEN "_volume_id" ELSE "_group_id"

\* The entries a mapping handed to deserialize is made of.
Entries(kind) ==
    {<<k_local_name, "db">>, <<K_LocalName, "web">>, <<k_available, "True">>,
     <<k_tags, [team |-> "ops"]>>, <<K_Comment, "text">>}
    \cup (CASE kind = "Volume" ->
                {<<K_VolumeId, "vol-1">>, <<k_volumeid, "vol-2">>, <<k_size, "8">>}
            [] kind = "SecurityGroup" -> {<<K_GroupId, "sg-1">>}
            [] kind = "SecurityGroupIngress" ->
                {<<K_GroupId, "sg-1">>, <<k_group_name, "web">>})

\* The largest number of entries of such a mapping.
MaxEntries == 3

\* The mappings handed to deserialize: no two keys of a mapping name the
\* same attribute.
Inputs(kind) ==
    LET attr(e) == pascal_to_underscore(e[1])
        sets == {S \in SUBSET Entries(kind) :
                    /\ Cardinality(S) <= MaxEntries
                    /\ \A e, f \in S : attr(e) = attr(f) => e = f}
    IN  {[key \in {e[1] : e \in S} |->
            (CHOOSE e \in S : e[1] = key)[2]] : S \in sets}

\* The objects at rest, before any has been constructed.
InitData ==
    /\ exec = NoRun
    /\ opLog = [n \in TaskNames |-> <<>>]
    /\ resources = <<>>
    /\ res = <<>>
    /\ settings = [retries |-> 0, delay |-> 0]
    /\ cloud = {}
    /\ srun = NoRun
    /\ rrun = NoRun
    /\ frame = NoFrame
    /\ call = NoCall
    /\ nops = 0
    /\ dict = NoData
    /\ stack = NoStack
    /\ store = <<>>

\* resource = Kind(); resource.deserialize(data)
Deserialize ==
    /\ dict.op = None
    /\ \E kind \in Kinds : \E values \in Inputs(kind) :
        /\ res' = ("r" :> deserialize(kind, Constructed(kind), values))
        /\ dict' = [op |-> "deserialize", kind |-> kind, mapping |-> values,
                    made |-> None]
    /\ UNCHANGED <<resources, settings, cloud, srun, rrun, frame, call, nops, stack, store, execVars>>

\* What create() leaves on the object when it succeeds: the global name,
\* the provider's id and available.
created(kind, obj) ==
    [a \in DOMAIN obj |->
        CASE a = "_available" -> "True"
          [] a = "_global_name" -> "name_stack"
          [] a = IdAttribute(kind) -> "id-9"
          [] OTHER -> obj[a]]

\* What destroy() leaves on the object when it succeeds: no provider id,
\* not available.
destroyed(kind, obj) ==
    [a \in DOMAIN obj |->
        CASE a = "_available" -> "False"
          [] a = IdAttribute(kind) -> None
          [] OTHER -> obj[a]]

\* create() has succeeded on the object.
Created ==
    /\ dict.op = "deserialize"
    /\ res["r"]._available = "False"
    /\ res' = [res EXCEPT !["r"] = created(dict.kind, @)]
    /\ dict' = [dict EXCEPT !.op = "create"]
    /\ UNCHANGED <<resources, settings, cloud, srun, rrun, frame, call, nops, stack, store, execVars>>

\* data = resource.serialize()
Serialize ==
    /\ dict.op \in {"deserialize", "create"}
    /\ dict' = [dict EXCEPT !.op = "serialize",
                            !.mapping = serialize(dict.kind, res["r"])]
    /\ UNCHANGED <<resources, res, settings, cloud, srun, rrun, frame, call, nops, stack, store, execVars>>

\* copy = Kind(); copy.deserialize(data)
Restore ==
    /\ dict.op = "serialize"
    /\ res' = res @@ ("copy" :> deserialize(dict.kind, Constructed(dict.kind),
                                            dict.mapping))
    /\ dict' = [dict EXCEPT !.op = "restore"]
    /\ UNCHANGED <<resources, settings, cloud, srun, rrun, frame, call, nops, stack, store, execVars>>

NextData == Deserialize \/ Created \/ Serialize \/ Restore

SpecData == InitData /\ [][NextData]_vars

(***************************************************************************)
(* The Stack as a collection: add_resource, the lookups, the global names  *)
(* and Stack.serialize / Stack.deserialize.  The resources are objects as  *)
(* in the section above; resources lists their identities in insertion    *)
(* order.                                                                  *)
(***************************************************************************)

\* The largest number of resources of a stack.
MaxResources == 2

\* The identities of the resource objects, in the order they are made.
ObjectIds == <<"r1", "r2", "r3", "r4">>

\* global_name[0:63]
NameLimit == 63

\* A name of k characters.
NameOf(chars, k) == [i \in 1..k |-> chars[((i - 1) % Len(chars)) + 1]]

\* Stacks as Stack.__init__ makes them: the global name is
\* '{stack_name}_{stack_creation}', with a creation stamp of 1 or of 19
\* characters.
Stacks ==
    {[MadeStack EXCEPT !.global_name = <<"t", "_">> \o NameOf(Capitals, k),
                       !.tags = [@ EXCEPT !.stack_creation = stamp]] :
        <<k, stamp>> \in {<<1, "1">>, <<19, "2016-01-01-00-00-00">>}}

\* The definitions deserialize_resources is handed: type and provider, a
\* local name (not always unique), and possibly tags and available.
ResourceData ==
    {(k_local_name :> d[1]) @@ (k_type :> d[2]) @@ (k_provider :> d[5])
        @@ (IF d[3] = <<>> THEN <<>> ELSE (k_tags :> d[3]))
        @@ (IF d[4] = "False" THEN <<>> ELSE (k_available :> d[4])) :
        d \in {<<"web", "SecurityGroup", <<>>, "False", "aws">>,
               <<"web", "SecurityGroupIngress", [team |-> "ops"], "True", "aws">>,
               <<"web", "SecurityGroup", [team |-> "dev", env |-> None], "True",
                 "aws">>,
               <<"db", "SecurityGroup", [team |-> "ops", stack_name |-> "mine"],
                 "False", "aws">>,
               <<"db", "SecurityGroupIngress", <<>>, "True", "AWS">>,
               <<"db", "Bar", <<>>, "False", "aws">>,
               <<"web", "SecurityGroup", <<>>, "False", "gcp">>}}

\* A variant of Attached in which the resource's own tags win.
AttachedOwnTagsWin(obj, stacktags) ==
    [obj EXCEPT !["_tags"] = update(stacktags, @), !["_stack"] = TheStack]

\* Stack.add_resource on an object: the stack's tags are written over the
\* resource's, and the stack reference is set.
Attached(obj, stacktags) ==
    [obj EXCEPT !["_tags"] = update(@, stacktags), !["_stack"] = TheStack]

\* The Resource plugins the configuration has loaded.
Plugins == Kinds

\* PluginError(message)
PluginError == "PluginError"

\* str.lower() on the names of providers
LowerCase(str) == IF str = "AWS" THEN "aws" ELSE str

\* A variant of Plugged that takes any plugin for any provider.
PluggedAnyProvider(rsrc_dict, stacktags) ==
    IF rsrc_dict[k_type] \notin Plugins
    THEN [raised |-> PluginError, resource |-> None]
    ELSE [raised |-> None,
          resource |-> Attached(deserialize(rsrc_dict[k_type],
                                            Constructed(rsrc_dict[k_type]),
                                            rsrc_dict),
                                stacktags)]

\* One round of the loop of deserialize_resources: the plugin named by
\* 'type' gives a new object; if its provider is the definition's, the
\* object deserializes the definition and is added.  Without such a plugin,
\* or with another provider, PluginError is raised.
Plugged(rsrc_dict, stacktags) ==
    IF rsrc_dict[k_type] \notin Plugins
    THEN [raised |-> PluginError, resource |-> None]
    ELSE LET resource == Constructed(rsrc_dict[k_type])
         IN  IF LowerCase(resource["_provider"]) = LowerCase(rsrc_dict[k_provider])
             THEN [raised |-> None,
                   resource |-> Evaluated(
                        Attached(deserialize(rsrc_dict[k_type], resource,
                                             rsrc_dict),
                                 stacktags))]
             ELSE [raised |-> PluginError, resource |-> None]

\* Stack.deserialize_resources(resource_list): the loop, up to the
\* definition that raises; the resources added, and the error raised.
RECURSIVE deserialize_resources(_, _)
deserialize_resources(resource_list, stacktags) ==
    IF resource_list = <<>> THEN [resources |-> <<>>, raised |-> None]
    ELSE LET plugged == Plugged(Head(resource_list), stacktags)
         IN  IF plugged.raised # None
             THEN [resources |-> <<>>, raised |-> plugged.raised]
             ELSE LET rest == deserialize_resources(Tail(resource_list), stacktags)
                  IN  [resources |-> <<plugged.resource>> \o rest.resources,
                       raised |-> rest.raised]

\* The value no tag has: unmatchable = object()
unmatchable == "object()"

\* A variant of dict_contains that reads a missing key as None.
dict_contains_get(superdict, subdict) ==
    \A key \in DOMAIN subdict :
        LET superval == IF key \in DOMAIN superdict THEN superdict[key] ELSE None
        IN  superval = subdict[key]

\* dict_contains(superdict, subdict)
dict_contains(superdict, subdict) ==
    \A key \in DOMAIN subdict :
        LET superval == IF key \in DOMAIN superdict THEN superdict[key]
                        ELSE unmatchable
        IN  superval = subdict[key]

\* [resource for resource in seq if dict_contains(resource.tags, tags)]
RECURSIVE Containing(_, _)
Containing(seq, tags) ==
    IF seq = <<>> THEN <<>>
    ELSE (IF dict_contains(res[Head(seq)]["_tags"], tags)
          THEN <<Head(seq)>> ELSE <<>>)
         \o Containing(Tail(seq), tags)

\* Stack.get_resource_by_tags(tags)
get_resource_by_tags(tags) == Containing(resources, tags)

\* A variant of get_global_resource_name without the slice.
get_global_resource_name_whole(name) ==
    name \o <<"_">> \o stack.global_name

\* Stack.get_global_resource_name(name)
get_global_resource_name(name) ==
    LET global_name == name \o <<"_">> \o stack.global_name
    IN  SubSeq(global_name, 1,
               IF Len(global_name) < NameLimit THEN Len(global_name)
               ELSE NameLimit)

\* A variant of Stack.deserialize that keeps the tags of the new Stack.
StackDeserializeOwnTags(data) ==
    [local_name |-> data.local_name,
     global_name |-> data.global_name,
     tags |-> [stack_name |-> data.local_name, stack_creation |-> "now"],
     resources |-> deserialize_resources(data.resources, data.tags).resources,
     raised |-> deserialize_resources(data.resources, data.tags).raised]

\* Stack.deserialize(data): a new Stack of the stored local name, whose
\* global name and tags are then set from the data and whose resources are
\* deserialized from it.
StackDeserialize(data) ==
    [local_name |-> data.local_name,
     global_name |-> data.global_name,
     tags |-> data.tags,
     resources |-> deserialize_resources(data.resources, data.tags).resources,
     raised |-> deserialize_resources(data.resources, data.tags).raised]

\* The resource objects of the stack, in the order of its list.
Held == [i \in DOMAIN resources |-> res[resources[i]]]

\* A variant of SerializeOf that leaves the resources out.
SerializeOfNoResources(stk, objs, sets) ==
    [local_name |-> stk.local_name,
     global_name |-> stk.global_name,
     config_name |-> "",
     settings |-> sets,
     tags |-> stk.tags,
     resources |-> <<>>]

\* Stack.serialize() of a Stack with these attributes and resources.
SerializeOf(stk, objs, sets) ==
    [local_name |-> stk.local_name,
     global_name |-> stk.global_name,
     config_name |-> "",
     settings |-> sets,
     tags |-> stk.tags,
     resources |-> Evaluated([i \in DOMAIN objs |->
                        Evaluated(serialize(objs[i]["_type"], objs[i]))])]

\* Stack.serialize()
StackSerialize == SerializeOf(stack, Held, settings)

\* The names the lookups are asked for.
NameInputs == {"web", "db", "cache"}

\* The tags the lookups are asked for.
TagQueries ==
    {<<>>, [team |-> "ops"], [env |-> None], [env |-> "prod"],
     [team |-> "dev", env |-> None], [stack_name |-> "t"],
     [stack_name |-> "foo"]}

\* The local names a global name is asked for: one character, and names
\* of one less than, exactly and one more than the limit.
LocalNames ==
    {NameOf(Smalls, k) : k \in {1, NameLimit - 1, NameLimit, NameLimit + 1}}

\* A Stack without resources.
InitStore ==
    /\ exec = NoRun
    /\ opLog = [n \in TaskNames |-> <<>>]
    /\ resources = <<>>
    /\ res = <<>>
    /\ settings = [retries |-> 0, delay |-> 0]
    /\ cloud = {}
    /\ srun = NoRun
    /\ rrun = NoRun
    /\ frame = NoFrame
    /\ call = NoCall
    /\ nops = 0
    /\ dict = NoData
    /\ stack \in Stacks
    /\ store = <<>>

\* A variant of added in which the Stack takes the tags of the resource and
\* formats its global name again.
added_renamed(stk, resource) ==
    [stk EXCEPT !.tags = update(@, resource["_tags"]),
                !.global_name = @ \o <<"_">>]

\* The Stack's own attributes after add_resource(resource): the tags are
\* written on the resource and the resource is appended; self._tags,
\* self._local_name and self._global_name are not assigned.
added(stk, resource) == stk

\* deserialize_resources([rsrc_dict]): the object is made, deserialized and
\* added to the stack.
AddResource ==
    /\ call.op = None
    /\ dict.op = None
    /\ Len(resources) < MaxResources
    /\ \E rsrc_dict \in ResourceData :
        LET id == ObjectIds[Len(resources) + 1]
            plugged == Plugged(rsrc_dict, stack.tags)
        IN  IF plugged.raised # None
            THEN /\ call' = [NoCall EXCEPT !.op = "deserialize_resources",
                                           !.result = plugged.raised]
                 /\ UNCHANGED <<resources, res, stack>>
            ELSE /\ res' = res @@ (id :> plugged.resource)
                 /\ resources' = Append(resources, id)
                 /\ stack' = added(stack, plugged.resource)
                 /\ call' = call
    /\ UNCHANGED <<settings, cloud, srun, rrun, frame, nops, dict, store, execVars>>

\* stack.get_resource_by_name(local_name)
GetByName ==
    /\ \E local_name \in NameInputs :
        call' = [NoCall EXCEPT !.op = "get_resource_by_name",
                               !.target = local_name,
                               !.result = get_resource_by_name(local_name)]
    /\ dict' = NoData
    /\ UNCHANGED <<resources, res, settings, cloud, srun, rrun, frame, nops, stack, store, execVars>>

\* stack.get_resource_by_tags(tags)
GetByTags ==
    /\ \E tags \in TagQueries :
        call' = [NoCall EXCEPT !.op = "get_resource_by_tags",
                               !.target = tags,
                               !.result = get_resource_by_tags(tags)]
    /\ dict' = NoData
    /\ UNCHANGED <<resources, res, settings, cloud, srun, rrun, frame, nops, stack, store, execVars>>

\* stack.get_global_resource_name(name)
GetGlobalName ==
    /\ \E name \in LocalNames :
        call' = [NoCall EXCEPT !.op = "get_global_resource_name",
                               !.target = name,
                               !.result = get_global_resource_name(name)]
    /\ dict' = NoData
    /\ UNCHANGED <<resources, res, settings, cloud, srun, rrun, frame, nops, stack, store, execVars>>

\* data = stack.serialize()
SerializeStack ==
    /\ dict' = [op |-> "Stack.serialize", kind |-> "Stack",
                mapping |-> StackSerialize, made |-> None]
    /\ call' = NoCall
    /\ UNCHANGED <<resources, res, settings, cloud, srun, rrun, frame, nops, stack, store, execVars>>

\* Stack.deserialize(data)
DeserializeStack ==
    /\ dict.op = "Stack.serialize"
    /\ dict' = [dict EXCEPT !.op = "Stack.deserialize",
                            !.made = StackDeserialize(dict.mapping)]
    /\ UNCHANGED <<resources, res, settings, cloud, srun, rrun, frame, call, nops, stack, store, execVars>>

NextStore ==
    \/ AddResource
    \/ GetByName
    \/ GetByTags
    \/ GetGlobalName
    \/ SerializeStack
    \/ DeserializeStack

SpecStore == InitStore /\ [][NextStore]_vars

(***************************************************************************)
(* Storage and the actions: DynamoStorage.dump and load, Stack.save and    *)
(* Stack.restore, and the CreateStack and DestroyStack actions.  The table *)
(* of the backend maps a hash key (a global name) to an item.  The run of  *)
(* the executor inside provision_resources and deprovision_resources is    *)
(* taken by its results: the resources here declare no dependencies, so    *)
(* every task is invoked, and it completes when its create or destroy      *)
(* succeeds.                                                               *)
(***************************************************************************)

\* The largest number of operations on the stack and the store.
MaxActs == 2

\* The Storage plugins the configuration has loaded.
StoragePlugins == {"DynamoStorage"}

\* The values of settings.storage.name.
StorageNames == {"DynamoStorage", "Foo"}

\* The keys of a serialized stack whose values are dicts or lists.
JsonKeys == {"settings", "resources"}

\* json.dumps(value): the text of a value.
json_dumps(value) == [json |-> value]

\* json.loads(text)
json_loads(text) == text.json

\* dynamize(stack): every tag becomes an attribute 'tag_<key>' of its own,
\* and the values that are dicts or lists become JSON text.
dynamize(entry) ==
    [attrs |-> Evaluated([k \in (DOMAIN entry) \ {"tags"} |->
                    IF k \in JsonKeys THEN json_dumps(entry[k]) ELSE entry[k]]),
     tag |-> IF "tags" \in DOMAIN entry THEN entry.tags ELSE <<>>]

\* dedynamize(stack): the 'tag_<key>' attributes are gathered under 'tags',
\* and json.loads is tried on every value: it loads the JSON text, and
\* fails on the names of this model, which are left as they are.
dedynamize(item) ==
    Evaluated([k \in (DOMAIN item.attrs) \cup {"tags"} |->
        IF k = "tags" THEN item.tag
        ELSE IF k \in JsonKeys THEN json_loads(item.attrs[k])
        ELSE item.attrs[k]])

\* A variant of dump that leaves an item that exists as it is.
dump_once(table, entry) ==
    IF entry.global_name \in DOMAIN table THEN table
    ELSE SetKey(table, entry.global_name, dynamize(entry))

\* DynamoStorage.dump(stack): the item of the stack's global_name gets the
\* attributes of the entry; without such an item, a new one is put.
dump(table, entry) ==
    LET new == dynamize(entry)
        key == entry.global_name
        item == IF key \in DOMAIN table
                THEN [attrs |-> Evaluated(update(table[key].attrs, new.attrs)),
                      tag |-> Evaluated(update(table[key].tag, new.tag))]
                ELSE new
    IN  SetKey(table, key, item)

\* DynamoStorage.load(name): the stack of that name, or nothing (None) when
\* the table has no item of that key.
load(table, name) ==
    IF name \in DOMAIN table
    THEN [found |-> TRUE, stack |-> dedynamize(table[name])]
    ELSE [found |-> FALSE, stack |-> None]

\* The names of the tasks of a stack run (local names) are unique.
NamesUnique(objs) ==
    \A i, j \in DOMAIN objs :
        objs[i]["_local_name"] = objs[j]["_local_name"] => i = j

\* The stack's list and objects for a sequence of resource objects.
IdsOf(objs) == [i \in DOMAIN objs |-> ObjectIds[i]]

ObjectsOf(objs) ==
    IF objs = <<>> THEN <<>>
    ELSE Evaluated([id \in {ObjectIds[i] : i \in DOMAIN objs} |->
            objs[CHOOSE i \in DOMAIN objs : ObjectIds[i] = id]])

\* The resources after provision_resources(), when the creates of the
\* resources at the indexes ok succeed and the others fail: create() does
\* nothing on an available resource.
provisioned(objs, ok) ==
    Evaluated([i \in DOMAIN objs |->
        IF objs[i]["_available"] = "True" THEN objs[i]
        ELSE IF i \in ok THEN Evaluated(created(objs[i]["_type"], objs[i]))
        ELSE objs[i]])

\* The resources after deprovision_resources(), likewise: destroy() does
\* nothing on a resource that is not available.
deprovisioned(objs, ok) ==
    Evaluated([i \in DOMAIN objs |->
        IF objs[i]["_available"] = "False" THEN objs[i]
        ELSE IF i \in ok THEN Evaluated(destroyed(objs[i]["_type"], objs[i]))
        ELSE objs[i]])

\* The results of the run: the tasks of the resources that are in the
\* state wanted have completed, the others have failed.
RunResults(objs, wanted) ==
    [completed |-> {objs[i]["_local_name"] : i \in
                        {j \in DOMAIN objs : objs[j]["_available"] = wanted}},
     failed |-> {objs[i]["_local_name"] : i \in
                        {j \in DOMAIN objs : objs[j]["_available"] # wanted}}]

\* What provision_resources or deprovision_resources gives: it returns, or
\* tasks_passed raises StackError.
RunResult(objs, wanted) ==
    LET passed == tasks_passed(RunResults(objs, wanted), StackError({}))
    IN  IF passed = "True" THEN "returned" ELSE passed

\* The indexes of the resources whose create (wanted "True") or destroy
\* (wanted "False") has work to do.
Working(objs, wanted) == {i \in DOMAIN objs : objs[i]["_available"] # wanted}

\* Stack.restore(name, config), up to the Stack it builds: PluginError
\* without the storage plugin, StackError(..., logger=logger) when load
\* gives nothing.
restore(table, name, sets) ==
    IF sets.storage \notin StoragePlugins
    THEN [raised |-> PluginError, found |-> FALSE, data |-> None]
    ELSE LET serialized == load(table, name)
         IN  IF ~serialized.found
             THEN [raised |-> StackError({"logger"}), found |-> FALSE,
                   data |-> None]
             ELSE [raised |-> StackDeserialize(serialized.stack).raised,
                   found |-> TRUE, data |-> serialized.stack]

\* The manifests a stack is made from: lists of definitions with unique
\* local names, of no, one or two resources; among them a type without
\* plugin and a provider that is not the plugin's.
Manifests ==
    LET plain == {d \in ResourceData :
                    k_tags \notin DOMAIN d /\ k_available \notin DOMAIN d}
    IN  {<<>>}
        \cup {<<d>> : d \in plain}
        \cup {<<d, e>> : <<d, e>> \in
                {x \in ResourceData \X plain :
                    x[1][k_local_name] = "db" /\ x[2][k_local_name] = "web"}}

\* The names restore and load are asked for.
LoadNames ==
    {MadeStack.global_name} \cup {s.global_name : s \in Stacks}
        \cup {<<"f", "o", "o">>}

\* A Stack as Stack.make gives it for a manifest, and an empty table.
InitAct ==
    /\ exec = NoRun
    /\ opLog = [n \in TaskNames |-> <<>>]
    /\ stack = MadeStack
    /\ \E manifest \in Manifests :
        \E loaded \in {deserialize_resources(manifest, MadeStack.tags)} :
            /\ loaded.raised = None
            /\ resources = IdsOf(loaded.resources)
            /\ res = ObjectsOf(loaded.resources)
    /\ settings \in {[retries |-> 0, delay |-> 0, storage |-> n] :
                        n \in StorageNames}
    /\ cloud = {}
    /\ srun = NoRun
    /\ rrun = NoRun
    /\ frame = NoFrame
    /\ call = NoCall
    /\ nops = 0
    /\ dict = NoData
    /\ store = <<>>

\* stack.provision_resources()
ProvisionAll ==
    /\ nops < MaxActs
    /\ NamesUnique(Held)
    /\ \E ok \in SUBSET Working(Held, "True") :
        \E objs \in {provisioned(Held, ok)} :
            /\ res' = ObjectsOf(objs)
            /\ call' = [NoCall EXCEPT
                            !.op = "provision_resources",
                            !.result = RunResult(objs, "True"),
                            !.invoked = IF objs = <<>> THEN {} ELSE {"create"}]
    /\ nops' = nops + 1
    /\ dict' = NoData
    /\ UNCHANGED <<resources, settings, cloud, srun, rrun, frame, stack, store, execVars>>

\* stack.deprovision_resources()
DeprovisionAll ==
    /\ nops < MaxActs
    /\ NamesUnique(Held)
    /\ \E ok \in SUBSET Working(Held, "False") :
        \E objs \in {deprovisioned(Held, ok)} :
            /\ res' = ObjectsOf(objs)
            /\ call' = [NoCall EXCEPT
                            !.op = "deprovision_resources",
                            !.result = RunResult(objs, "False"),
                            !.invoked = IF objs = <<>> THEN {} ELSE {"destroy"}]
    /\ nops' = nops + 1
    /\ dict' = NoData
    /\ UNCHANGED <<resources, settings, cloud, srun, rrun, frame, stack, store, execVars>>

\* stack.save(): the dumps handed to the backend are kept in call.past.
Save ==
    /\ nops < MaxActs
    /\ IF settings.storage \in StoragePlugins
       THEN \E entry \in {StackSerialize} :
            /\ store' = dump(store, entry)
            /\ call' = [NoCall EXCEPT !.op = "save", !.result = "returned",
                                      !.past = <<entry>>]
       ELSE /\ store' = store
            /\ call' = [NoCall EXCEPT !.op = "save", !.result = PluginError]
    /\ nops' = nops + 1
    /\ dict' = NoData
    /\ UNCHANGED <<resources, res, settings, cloud, srun, rrun, frame, stack, execVars>>

\* Stack.restore(name, config): the caller holds the restored Stack when it
\* returns; worked tells whether a Stack was constructed.
StackRestore ==
    /\ nops < MaxActs
    /\ \E name \in LoadNames :
        \E got \in {restore(store, name, settings)} :
            IF got.raised # None
            THEN /\ call' = [NoCall EXCEPT !.op = "restore", !.target = name,
                                           !.result = got.raised,
                                           !.worked = got.found]
                 /\ UNCHANGED <<resources, res, settings, stack>>
            ELSE \E made \in {StackDeserialize(got.data)} :
                 /\ call' = [NoCall EXCEPT !.op = "restore", !.target = name,
                                           !.result = "returned",
                                           !.worked = TRUE]
                 /\ stack' = [local_name |-> made.local_name,
                              global_name |-> made.global_name,
                              tags |-> made.tags]
                 /\ resources' = IdsOf(made.resources)
                 /\ res' = ObjectsOf(made.resources)
                 /\ settings' = got.data.settings
    /\ nops' = nops + 1
    /\ dict' = NoData
    /\ UNCHANGED <<cloud, srun, rrun, frame, store, execVars>>

\* store.dump(entry), called on the backend itself; worked tells whether
\* the table had the item already.
StoreDump ==
    /\ nops < MaxActs
    /\ \E whole \in {StackSerialize} :
        \E entry \in {whole, [whole EXCEPT !.resources = <<>>]} :
            /\ store' = dump(store, entry)
            /\ call' = [NoCall EXCEPT
                            !.op = "dump", !.target = entry.global_name,
                            !.result = "returned", !.past = <<entry>>,
                            !.worked = entry.global_name \in DOMAIN store]
    /\ nops' = nops + 1
    /\ dict' = NoData
    /\ UNCHANGED <<resources, res, settings, cloud, srun, rrun, frame, stack, execVars>>

\* store.load(name), called on the backend itself.
StoreLoad ==
    /\ nops < MaxActs
    /\ \E name \in LoadNames :
        /\ call' = [NoCall EXCEPT !.op = "load", !.target = name,
                                  !.result = load(store, name)]
    /\ nops' = nops + 1
    /\ dict' = NoData
    /\ UNCHANGED <<resources, res, settings, cloud, srun, rrun, frame, stack, store, execVars>>

\* What run gives its caller: the error raised, or the values returned (no
\* value when the function ends without a return statement).
Raised(error) == [raised |-> error, value |-> <<>>]

Returned(values) == [raised |-> None, value |-> values]

\* What the action gives after the run of the tasks and the save: the
\* StackError of tasks_passed, the PluginError of save, or what run returns.
Outcome(result, saved, values) ==
    IF result # "returned" THEN Raised(result)
    ELSE IF ~saved THEN Raised(PluginError)
    ELSE Returned(values)

\* Whether the run of the tasks left a resource with another availability
\* than it had before.
AvailabilityChanged(before, after) ==
    \E i \in DOMAIN before : after[i]["_available"] # before[i]["_available"]

\* CreateStack.run(config, name=...): Stack.make, provision_resources and
\* save; run has no return statement.  The Stack it made is the one held
\* afterwards; worked tells whether the availability of a resource changed.
CreateStackRun ==
    /\ nops < MaxActs
    /\ \E made \in Stacks, manifest \in Manifests :
        \E loaded \in {deserialize_resources(manifest, made.tags)} :
            IF loaded.raised # None
            THEN /\ call' = [NoCall EXCEPT !.op = "CreateStack",
                                           !.subset = manifest,
                                           !.result = Raised(loaded.raised)]
                 /\ UNCHANGED <<resources, res, stack, store>>
            ELSE \E ok \in SUBSET Working(loaded.resources, "True") :
                \E objs \in {provisioned(loaded.resources, ok)} :
                \E entry \in {SerializeOf(made, objs, settings)} :
                    LET result == RunResult(objs, "True")
                        saved == result = "returned"
                                 /\ settings.storage \in StoragePlugins
                    IN  /\ stack' = made
                        /\ resources' = IdsOf(objs)
                        /\ res' = ObjectsOf(objs)
                        /\ store' = IF saved THEN dump(store, entry) ELSE store
                        /\ call' = [NoCall EXCEPT
                                !.op = "CreateStack",
                                !.subset = manifest,
                                !.result = Outcome(result, saved, <<>>),
                                !.worked = AvailabilityChanged(
                                                loaded.resources, objs),
                                !.invoked = IF objs = <<>> THEN {}
                                            ELSE {"create"},
                                !.past = IF saved THEN <<entry>> ELSE <<>>]
    /\ nops' = nops + 1
    /\ dict' = NoData
    /\ UNCHANGED <<settings, cloud, srun, rrun, frame, execVars>>

\* DestroyStack.run(config, name=...): Stack.restore, deprovision_resources
\* and save; run returns the global name of the stack.  worked tells
\* whether the availability of a resource changed.
DestroyStackRun ==
    /\ nops < MaxActs
    /\ \E name \in LoadNames :
        \E got \in {restore(store, name, settings)} :
            IF got.raised # None
            THEN /\ call' = [NoCall EXCEPT !.op = "DestroyStack",
                                           !.target = name,
                                           !.result = Raised(got.raised)]
                 /\ UNCHANGED <<resources, res, settings, stack, store>>
            ELSE \E made \in {StackDeserialize(got.data)} :
                 /\ NamesUnique(made.resources)
                 /\ \E ok \in SUBSET Working(made.resources, "False") :
                    \E objs \in {deprovisioned(made.resources, ok)} :
                    \E restored \in {[local_name |-> made.local_name,
                                      global_name |-> made.global_name,
                                      tags |-> made.tags]} :
                    \E entry \in {SerializeOf(restored, objs, got.data.settings)} :
                        LET result == RunResult(objs, "False")
                            saved == result = "returned"
                                     /\ got.data.settings.storage \in StoragePlugins
                        IN  /\ stack' = restored
                            /\ resources' = IdsOf(objs)
                            /\ res' = ObjectsOf(objs)
                            /\ settings' = got.data.settings
                            /\ store' = IF saved THEN dump(store, entry)
                                        ELSE store
                            /\ call' = [NoCall EXCEPT
                                    !.op = "DestroyStack",
                                    !.target = name,
                                    !.result = Outcome(result, saved,
                                                       <<restored.global_name>>),
                                    !.worked = AvailabilityChanged(
                                                    made.resources, objs),
                                    !.invoked = IF objs = <<>> THEN {}
                                                ELSE {"destroy"},
                                    !.past = IF saved THEN <<entry>> ELSE <<>>]
    /\ nops' = nops + 1
    /\ dict' = NoData
    /\ UNCHANGED <<cloud, srun, rrun, frame, execVars>>

NextAct ==
    \/ ProvisionAll
    \/ DeprovisionAll
    \/ Save
    \/ StackRestore
    \/ StoreDump
    \/ StoreLoad
    \/ CreateStackRun
    \/ DestroyStackRun

SpecAct == InitAct /\ [][NextAct]_vars

\* The operations on one Stack: a Stack without resources, to which
\* resources are added, which is then looked into, serialized, provisioned,
\* deprovisioned and saved.
InitOps ==
    /\ exec = NoRun
    /\ opLog = [n \in TaskNames |-> <<>>]
    /\ resources = <<>>
    /\ res = <<>>
    /\ settings \in {[retries |-> 0, delay |-> 0, storage |-> n] :
                        n \in StorageNames}
    /\ cloud = {}
    /\ srun = NoRun
    /\ rrun = NoRun
    /\ frame = NoFrame
    /\ call = NoCall
    /\ nops = 0
    /\ dict = NoData
    /\ stack \in Stacks
    /\ store = <<>>

NextOps ==
    \/ AddResource
    \/ GetByName
    \/ GetByTags
    \/ GetGlobalName
    \/ SerializeStack
    \/ ProvisionAll
    \/ DeprovisionAll
    \/ Save

SpecOps == InitOps /\ [][NextOps]_vars

(***************************************************************************)
(* Properties.                                                             *)
(***************************************************************************)

\* The tasks of the run that depend, directly or transitively, on one of S.
RECURSIVE Dependents(_, _)
Dependents(run, S) ==
    LET more == {n \in run.names \ S : run.deps[n] \cap S # {}}
    IN  IF more = {} THEN S ELSE Dependents(run, S \cup more)

Last(seq) == seq[Len(seq)]

\* C1: in a provision_resources run that holds both a resource a and a
\* resource b that a declares as a dependency, a's create is not started
\* before b's create task is in the completed set; and a resource without
\* dependencies is eligible whenever the executor picks its next task.
C1_CreateAfterDependencies ==
    call.op = "provision" =>
        \A a \in srun.names :
            /\ srun.attempts[a] > 0 =>
                \A b \in Range(get_dependencies(a)) \cap srun.names :
                    b \in srun.completed
            /\ (/\ get_dependencies(a) = <<>>
                /\ srun.active /\ srun.running = None
                /\ a \in Pending(srun)) => a \in Eligible(srun)

\* The ingress rule's create has been started in a run with both groups.
C1_Witness ==
    /\ call.op = "provision"
    /\ srun.names = ResourceNames
    /\ srun.attempts["ing"] > 0
    /\ Range(get_dependencies("ing")) = {"sg", "src"}

\* C2: in a deprovision_resources run that holds both a resource a and a
\* resource b that a depends on for creation, b's destroy is not started
\* before a's destroy task is in the completed set.
C2_DestroyBeforeDependencies ==
    call.op = "deprovision" =>
        \A a \in srun.names :
            \A b \in Range(get_dependencies(a)) \cap srun.names :
                srun.attempts[b] > 0 => a \in srun.completed

\* C3: once a task has failed for good (it was invoked and is in the failed
\* set), no task that depends on it, directly or transitively, is ever
\* invoked, and all of them are in the failed set when the run has ended.
C3_FailurePropagates ==
    \A t \in exec.names :
        (t \in exec.failed /\ Len(opLog[t]) > 0) =>
            \A d \in Dependents(exec, {t}) \ {t} :
                /\ Len(opLog[d]) = 0
                /\ exec.attempts[d] = 0
                /\ ~exec.active => d \in exec.failed

\* A chain t1 <- t2 <- t3 whose first task failed after being invoked.
C3_Witness ==
    /\ ~exec.active
    /\ exec.deps["t2"] = {"t1"}
    /\ exec.deps["t3"] = {"t2"}
    /\ Len(opLog["t1"]) > 0
    /\ {"t1", "t2", "t3"} \subseteq exec.failed

\* C4: a task with retries = N is invoked at most N + 1 times; a task that
\* was invoked is in the failed set only when N + 1 invocations have all
\* failed; and no invocation follows a successful one.
C4_RetryBound ==
    \A t \in exec.names :
        LET n == Len(opLog[t])
            N == exec.retries[t]
        IN  /\ n <= N + 1
            /\ exec.attempts[t] <= N + 1
            /\ (t \in exec.failed /\ n > 0) =>
                    (n = N + 1 /\ \A i \in 1..n : ~opLog[t][i])
            /\ \A i \in 1..n : opLog[t][i] => i = n

\* A task with retries = MaxRetries that failed on its last attempt, and
\* another that succeeded after a failed attempt.
C4_Witness ==
    \E t, u \in exec.names :
        /\ exec.retries[t] = MaxRetries
        /\ t \in exec.failed
        /\ Len(opLog[t]) = MaxRetries + 1
        /\ u \in exec.completed
        /\ Len(opLog[u]) > 1

\* What the bookkeeping of a run does with an attempt that raised or gave a
\* falsy result: the run goes on, and the task is pending again while it
\* has retries left and failed otherwise.
FailedAttempt(run, after) ==
    (run.running # None /\ run.outcome \in {"falsy", "raise"}) =>
        LET t == run.running
        IN  /\ after.active
            /\ after.running = None
            /\ IF run.attempts[t] <= run.retries[t]
               THEN t \in Pending(after)
               ELSE t \in after.failed

C6_ResultsPartitionTasks ==
    ~exec.active =>
        /\ exec.completed \cap exec.failed = {}
        /\ exec.completed \cup exec.failed = TaskNames
        /\ \A n \in exec.completed :
            Len(opLog[n]) > 0 /\ Last(opLog[n])

\* A finished run with a completed task, a task that failed when invoked
\* and a task that was never invoked.
C6_Witness ==
    /\ ~exec.active
    /\ exec.completed # {}
    /\ \E t, u \in exec.failed : Len(opLog[t]) > 0 /\ Len(opLog[u]) = 0

\* C7: a run over a task graph without cycles and with finite retry counts
\* ends, and then every task is completed or failed.
C7_RunTerminates ==
    <>(~exec.active /\ Pending(exec) = {})

\* A run has ended in which a task used up all its retries.
C7_Witness ==
    /\ ~exec.active
    /\ \E t \in exec.failed : Len(opLog[t]) = MaxRetries + 1

\* provision_resources and deprovision_resources return or raise.
StackCallEnds ==
    (call.op \in {"provision", "deprovision"} /\ call.result = None)
        ~> (call.result # None /\ ~srun.active /\ Pending(srun) = {})

\* The direct call before the current one.
Previous == Last(call.past)

\* C8: create() on a resource that is already available returns True
\* without calling the decorated function: no task run is started, the
\* provider is left as it was and the resource stays available; this holds
\* whether or not the resource has a stack.
C8_CreateAvailableIsNoOp ==
    (call.op = "create" /\ call.preAvailable) =>
        /\ call.result = "True"
        /\ ~call.worked
        /\ frame.res = None /\ rrun = NoRun
        /\ cloud = call.preCloud
        /\ res[call.target].available

\* create() has been called on an available resource without a stack.
C8_Witness ==
    /\ call.op = "create"
    /\ call.preAvailable
    /\ call.preStack = None
    /\ call.result = "True"

\* destroy() on a resource that is not available returns True without
\* calling the decorated function, leaves the provider as it was and the
\* resource unavailable.
DestroyUnavailableIsNoOp ==
    (call.op = "destroy" /\ ~call.preAvailable) =>
        /\ call.result = "True"
        /\ ~call.worked
        /\ cloud = call.preCloud
        /\ ~res[call.target].available

WithoutStack ==
    /\ call.op \in {"create", "destroy"}
    /\ call.preStack = None
    /\ call.op = "create" <=> ~call.preAvailable

\* C10: create() on an unavailable resource, or destroy() on an available
\* one, whose stack is unset raises StackError; the decorated function is
\* not called and available is unchanged.
C10_WithoutStackRaisesStackError ==
    WithoutStack =>
        /\ call.result = "StackError"
        /\ ~call.worked
        /\ res[call.target].available = call.preAvailable

\* C11: over create(), destroy() and sync() calls on a resource, available
\* changes from false to true only in a create() that reports success and
\* from true to false only in a destroy() that reports success: a call that
\* is in progress has changed available only in its own direction, and a
\* call that has ended with available changed returned True.
C11_AvailableChangesOnlyOnSuccess ==
    (call.op \in {"create", "destroy", "sync"}
     /\ res[call.target].available # call.preAvailable) =>
        /\ call.op = IF call.preAvailable THEN "destroy" ELSE "create"
        /\ call.result \in {None, "True"}

C13_RaisesIffFailed ==
    (call.op \in {"provision", "deprovision"} /\ call.result # None) =>
        /\ call.result = "StackError" <=> srun.failed # {}
        /\ call.result = "returned" <=> srun.failed = {}
        /\ call.result = "StackError" =>
            /\ call.message.Completed = srun.completed
            /\ call.message.Failed = srun.failed
            /\ call.message.Completed \cup call.message.Failed = Range(call.subset)
        /\ call.result = "returned" => call.message = None

\* deprovision_resources has raised with a completed and a failed task.
C13_Witness ==
    /\ call.op = "deprovision"
    /\ call.result = "StackError"
    /\ srun.completed # {}
    /\ srun.failed # {}

Observable(kind) ==
    {"_local_name", "_global_name", "_provider", "_type", "_available", "_tags"}
    \cup Range(SerializedFields(kind)) \cup {IdAttribute(kind)}

\* C15: for every kind of resource and every state r of it, deserializing
\* serialize(r) into a fresh resource of the kind gives the same local_name,
\* global_name, provider, type, available, tags and type-specific fields,
\* provider ids included.
C15_ResourceRoundTrip ==
    dict.op = "restore" =>
        \A a \in Observable(dict.kind) : res["copy"][a] = res["r"][a]

\* The attributes of a kind that a key names: the key, in underscore form, is
\* one the resource knows.
NamedBy(kind, key) ==
    LET attr == pascal_to_underscore(key)
    IN  (IF attr \in DOMAIN attributes_map(kind)
         THEN {attributes_map(kind)[attr]} ELSE {})
        \cup (IF attr \in DOMAIN DeserializedFields(kind)
              THEN {DeserializedFields(kind)[attr]} ELSE {})

\* C17: deserialize(data) changes only the attributes whose keys appear in
\* data and are known to the resource: the object has the attributes its
\* constructor gave it and no other, every attribute no key of data names
\* keeps its constructor default, and a named one has the value of its key.
C17_DeserializeChangesOnlyNamed ==
    dict.op = "deserialize" =>
        LET fresh == Constructed(dict.kind)
            r == res["r"]
        IN  /\ DOMAIN r = DOMAIN fresh
            /\ \A a \in DOMAIN fresh :
                (\A key \in DOMAIN dict.mapping : a \notin NamedBy(dict.kind, key))
                    => r[a] = fresh[a]
            /\ \A key \in DOMAIN dict.mapping :
                \A a \in NamedBy(dict.kind, key) : r[a] = dict.mapping[key]

\* A mapping with a known key and an unknown one has been deserialized.
C17_Witness ==
    /\ dict.op = "deserialize"
    /\ K_Comment \in DOMAIN dict.mapping
    /\ K_LocalName \in DOMAIN dict.mapping
    /\ res["r"]._local_name = "web"
    /\ res["r"]._available = "False"

\* C16: Stack.deserialize(s.serialize()) is a stack with the global_name and
\* tags of s and with as many resources, the i-th of which has the
\* local_name, type, provider and available of the i-th resource of s.
C16_StackRoundTrip ==
    dict.op = "Stack.deserialize" =>
        /\ dict.made.raised = None
        /\ dict.made.global_name = stack.global_name
        /\ dict.made.tags = stack.tags
        /\ Len(dict.made.resources) = Len(resources)
        /\ \A i \in DOMAIN resources :
            \A a \in {"_local_name", "_type", "_provider", "_available"} :
                dict.made.resources[i][a] = res[resources[i]][a]

\* A stack of two resources that share a local name, one of them
\* available, has been serialized and deserialized.
C16_Witness ==
    /\ dict.op = "Stack.deserialize"
    /\ Len(resources) = 2
    /\ res[resources[1]]["_local_name"] = res[resources[2]]["_local_name"]
    /\ res[resources[1]]["_available"] # res[resources[2]]["_available"]
    /\ res[resources[1]]["_type"] # res[resources[2]]["_type"]

C19_TagSupersetSearch ==
    call.op = "get_resource_by_tags" =>
        LET t == call.target
            got == call.result
            Has(r) == \A k \in DOMAIN t :
                        /\ k \in DOMAIN res[r]["_tags"]
                        /\ res[r]["_tags"][k] = t[k]
        IN  /\ Range(got) = {r \in Range(resources) : Has(r)}
            /\ Cardinality(Range(got)) = Len(got)

\* The tag env has been searched with the value None in a stack where one
\* resource has it with that value, among other tags, and another lacks it.
C19_Witness ==
    /\ call.op = "get_resource_by_tags"
    /\ call.target = [env |-> None]
    /\ Len(call.result) = 1
    /\ DOMAIN res[call.result[1]]["_tags"] # {"env"}
    /\ \E r \in Range(resources) : "env" \notin DOMAIN res[r]["_tags"]

\* C20: get_resource_by_name(n) returns the first resource, in insertion
\* order, whose local_name is n, and None when no resource has that
\* local_name; the call leaves the stack and its resources as they were.
C20_FirstByNameOrNone ==
    [][call'.op = "get_resource_by_name" =>
        LET n == call'.target
            got == call'.result
            hits == {i \in DOMAIN resources :
                        res[resources[i]]["_local_name"] = n}
        IN  /\ hits = {} => got = None
            /\ hits # {} =>
                \E i \in hits : /\ got = resources[i]
                                /\ \A j \in hits : i <= j
            /\ UNCHANGED <<resources, res, stack>>]_vars

\* A name that two resources of the stack have has been looked up.
C20_Witness ==
    /\ call.op = "get_resource_by_name"
    /\ Len(resources) = 2
    /\ res[resources[1]]["_local_name"] = call.target
    /\ res[resources[2]]["_local_name"] = call.target
    /\ call.result = resources[1]

\* C28: sync() returns without raising, and a resource without a provider
\* id, or one the provider no longer reports, is not available afterwards.
C28_SyncNeverRaises ==
    call.op = "sync" =>
        /\ call.result = None
        /\ (res[call.target].group_id = None
            \/ res[call.target].group_id \notin cloud)
                => ~res[call.target].available

\* C29: when create() returns, it reports success exactly when the
\* resource is available afterwards.
C29_CreateResultIsAvailable ==
    (call.op = "create" /\ call.result \in {"True", "False"}) =>
        (call.result = "True" <=> res[call.target].available)

\* The resources of the list given to provision_resources that declare a
\* dependency on a resource outside the list.
DependsOutside ==
    {r \in Range(call.subset) :
        \E d \in Range(get_dependencies(r)) : d \notin Range(call.subset)}

\* C30: in provision_resources(R), a resource of R with a dependency outside
\* R never has its create invoked, and is in the failed set when the run
\* has ended, whether or not the dependency is available.
C30_OutsideDependencyFails ==
    call.op = "provision" =>
        \A r \in DependsOutside :
            /\ srun.attempts[r] = 0
            /\ call.result # None => r \in srun.failed

\* The ingress rule alone has been provisioned in a stack whose two security
\* groups are available.
C30_Witness ==
    /\ call.op = "provision"
    /\ call.result # None
    /\ call.subset = <<"ing">>
    /\ res["sg"].available
    /\ res["src"].available
    /\ "ing" \in srun.failed

\* C24: every resource of the stack's list has the stack as its stack and
\* has every tag of the stack with the stack's value, and a search for the
\* stack's stack_name tag returns every resource of the list.
C24_AttachedResourcesCarryStackTags ==
    /\ \A r \in Range(resources) :
        /\ res[r]["_stack"] = TheStack
        /\ \A k \in DOMAIN stack.tags :
            /\ k \in DOMAIN res[r]["_tags"]
            /\ res[r]["_tags"][k] = stack.tags[k]
    /\ (call.op = "get_resource_by_tags"
        /\ call.target = [stack_name |-> stack.tags.stack_name])
            => call.result = resources

\* The stack's name tag has been searched in a stack of two resources, one
\* of them defined with a stack_name tag of its own.
C24_Witness ==
    /\ call.op = "get_resource_by_tags"
    /\ call.target = [stack_name |-> "t"]
    /\ Len(call.result) = 2
    /\ \E r \in Range(resources) :
        /\ res[r]["_local_name"] = "db"
        /\ "team" \in DOMAIN res[r]["_tags"]

\* C27: over dump and load calls, the table holds one item per global_name:
\* a dump adds the item of the entry's global_name or, when the table has
\* it, updates it, and leaves the other items alone; nothing else changes
\* the table.  load(n) gives the entry last dumped under n exactly when n
\* has an item, and gives nothing, without raising, for any other name.
C27_OneEntryPerGlobalName ==
    [][nops' # nops =>
        /\ DOMAIN store \subseteq DOMAIN store'
        /\ store' # store => call'.past # <<>>
        /\ call'.past # <<>> =>
            LET entry == call'.past[1]
                n == entry.global_name
            IN  /\ DOMAIN store' = DOMAIN store \cup {n}
                /\ \A m \in (DOMAIN store) \ {n} : store'[m] = store[m]
                /\ load(store', n).found
                /\ \A key \in DOMAIN entry : load(store', n).stack[key] = entry[key]
        /\ call'.op = "load" =>
            /\ store' = store
            /\ call'.result.found <=> call'.target \in DOMAIN store
            /\ call'.result.found =>
                    call'.result.stack.global_name = call'.target
            /\ ~call'.result.found => call'.result.stack = None
    ]_vars

\* A second dump under a global_name the table holds has replaced the
\* resources of the item.
C27_Witness ==
    /\ call.op = "dump"
    /\ call.worked
    /\ resources # <<>>
    /\ call.past[1].resources = <<>>
    /\ Cardinality(DOMAIN store) = 1
    /\ load(store, call.target).stack.resources = <<>>

\* C23: save() hands the backend one dump, of the stack's attributes and of
\* the serialized form of every resource as it is now, after which the
\* backend loads that form under the stack's global_name; when the storage
\* plugin named in the settings is not found, save raises PluginError and
\* nothing is dumped.
C23_SaveDumpsCurrentForm ==
    [][(nops' # nops /\ call'.op = "save") =>
        IF settings.storage \in StoragePlugins
        THEN /\ call'.result = "returned"
             /\ Len(call'.past) = 1
             /\ call'.past[1].global_name = stack.global_name
             /\ call'.past[1].local_name = stack.local_name
             /\ call'.past[1].tags = stack.tags
             /\ call'.past[1].settings = settings
             /\ DOMAIN call'.past[1].resources = DOMAIN resources
             /\ \A i \in DOMAIN resources :
                    call'.past[1].resources[i]
                        = serialize(Held[i]["_type"], Held[i])
             /\ load(store', stack.global_name).found
             /\ load(store', stack.global_name).stack = call'.past[1]
        ELSE /\ call'.result = PluginError
             /\ call'.past = <<>>
             /\ store' = store
    ]_vars

\* save() has returned on a stack whose resource was created by
\* provision_resources, and the table holds the resource as available.
C23_Witness ==
    /\ call.op = "save"
    /\ call.result = "returned"
    /\ \E i \in DOMAIN resources :
        /\ Held[i]["_global_name"] = "name_stack"
        /\ load(store, stack.global_name).stack.resources[i][k_available] = "True"

\* C25: the operations on a Stack that has been constructed (add_resource,
\* provision_resources, deprovision_resources, save, serialize and the
\* lookups) leave its global_name, its local_name and its tags as they are.
C25_GlobalNameKept ==
    [][/\ stack'.global_name = stack.global_name
       /\ stack'.local_name = stack.local_name
       /\ stack'.tags = stack.tags]_vars

\* A resource with tags of its own was added, the stack was provisioned and
\* saved, and the table holds it under the global name it was made with.
C25_Witness ==
    /\ call.op = "save"
    /\ call.result = "returned"
    /\ \E i \in DOMAIN resources :
        /\ "team" \in DOMAIN Held[i]["_tags"]
        /\ Held[i]["_global_name"] = "name_stack"
    /\ stack \in Stacks
    /\ DOMAIN store = {stack.global_name}

\* C22: restore(name, config) returns a Stack only when the storage plugin
\* was found and its load(name) gave a serialized stack; it raises
\* PluginError when the plugin is not found and StackError when the plugin
\* has no stack of that name, and then no Stack has been constructed.
C22_RestoreRaisesStackError ==
    call.op = "restore" =>
        /\ call.result = "returned" =>
            /\ call.worked
            /\ call.target \in DOMAIN store
            /\ stack.global_name = call.target
        /\ call.result # "returned" =>
            /\ ~call.worked
            /\ call.result \in {PluginError, "StackError"}
        /\ (settings.storage \in StoragePlugins /\ call.target \notin DOMAIN store)
                => call.result = "StackError"

\* C26: when the CreateStack action has made, provisioned and saved a
\* stack, it returns the stack's global name; and when the DestroyStack
\* action, run with a global name, has restored, deprovisioned and saved the
\* stack, it returns that global name, the stack held is the one of that
\* name, none of its resources is available, and the table holds it so.
C26_CreateReturnsGlobalName ==
    /\ (call.op = "CreateStack" /\ call.result.raised = None) =>
        /\ call.result.value = <<stack.global_name>>
        /\ load(store, stack.global_name).found
    /\ (call.op = "DestroyStack" /\ call.result.raised = None) =>
        /\ call.result.value = <<call.target>>
        /\ stack.global_name = call.target
        /\ \A i \in DOMAIN resources : Held[i]["_available"] = "False"
        /\ load(store, call.target).stack = StackSerialize

\* The definition names a type without Resource plugin, or a provider that
\* is not the one of the plugin of its type.
Unplugged(rsrc_dict) ==
    \/ rsrc_dict[k_type] \notin Plugins
    \/ LowerCase(rsrc_dict[k_provider])
            # LowerCase(Constructed(rsrc_dict[k_type])["_provider"])

\* C21: when the resource list a stack is made from holds a definition whose
\* type has no Resource plugin, or whose provider is not the plugin's,
\* PluginError is raised, no create or destroy of any resource has been
\* invoked, and nothing has been saved.
C21_UnknownTypeRaisesBeforeCreate ==
    (call.op = "CreateStack"
            /\ \E i \in DOMAIN call.subset : Unplugged(call.subset[i])) =>
        /\ call.result = Raised(PluginError)
        /\ call.invoked = {}
        /\ call.past = <<>>

\* The second definition of the list names another provider than its
\* plugin's, after a first definition that was deserialized and added.
C21_Witness ==
    /\ call.op = "CreateStack"
    /\ Len(call.subset) = 2
    /\ ~Unplugged(call.subset[1])
    /\ call.subset[2][k_type] \in Plugins
    /\ Unplugged(call.subset[2])
    /\ call.result = Raised(PluginError)

\* How many times x is listed in seq.
Count(seq, x) == Cardinality({i \in DOMAIN seq : seq[i] = x})

\* C31: the mapping _get_inverse_dependencies(R) returns has a key for every
\* resource of R, and under name x it lists name y exactly as many times as
\* y, a resource of R, declares x among its dependencies (so a resource
\* with no dependents in R maps to the empty list).
C31_InverseIsTranspose ==
    call.op = "deprovision" =>
        LET R == call.subset
            inverse_dependencies == get_inverse_dependencies(R)
        IN  /\ Range(R) \subseteq DOMAIN inverse_dependencies
            /\ \A x \in DOMAIN inverse_dependencies :
                /\ Range(inverse_dependencies[x]) \subseteq Range(R)
                /\ \A y \in Range(R) :
                    Count(inverse_dependencies[x], y)
                        = Count(get_dependencies(y), x)

\* C33: whatever settings.retries is, the tasks of provision_resources and
\* of deprovision_resources carry retries = 0, so the create (destroy) of a
\* resource is invoked at most once per call: an operation that returned a
\* falsy value or raised is not invoked again.
C33_StackTasksNotRetried ==
    \A n \in srun.names :
        /\ srun.retries[n] = 0
        /\ srun.attempts[n] <= 1

\* A provision_resources call of a stack with settings.retries = 1 has
\* ended with a resource whose create was invoked once and failed.
C33_Witness ==
    /\ call.op = "provision"
    /\ call.result # None
    /\ settings.retries = 1
    /\ \E n \in srun.failed : srun.attempts[n] = 1

\* The stack's run invokes the operation of task b in this step, and the
\* guard of the operation lets the decorated function run.
WorkInvoked(b) ==
    /\ srun.active
    /\ srun'.active
    /\ b \in srun.names
    /\ srun'.attempts[b] > srun.attempts[b]
    /\ res[b].stack # None

\* C34: during a deprovision_resources call, for all resources or a sublist,
\* the destroy work of a resource is not invoked while a resource of the
\* stack that depends on it is still available.
C34_DestroyAfterDependents ==
    [][\A b \in Range(resources) :
        (call.op = "deprovision" /\ WorkInvoked(b) /\ res[b].available) =>
            \A a \in Range(resources) :
                b \in Range(get_dependencies(a)) => ~res[a].available]_vars

\* The same for the calls that are handed all the resources of the stack.
C34_DestroyAfterDependentsOfAll ==
    [][\A b \in Range(resources) :
        (/\ call.op = "deprovision"
         /\ call.subset = resources
         /\ WorkInvoked(b)
         /\ res[b].available) =>
            \A a \in Range(resources) :
                b \in Range(get_dependencies(a)) => ~res[a].available]_vars

\* C35: during a provision_resources call, for all resources or a sublist,
\* the creation work of a resource (the function under the guard of
\* create) is not invoked while one of its declared dependencies is
\* unavailable.
C35_CreateWorkAfterDependencies ==
    [][\A a \in Range(resources) :
        (call.op = "provision" /\ WorkInvoked(a) /\ ~res[a].available) =>
            \A b \in Range(get_dependencies(a)) : res[b].available]_vars

\* A provision_resources call has invoked the creation work of the ingress
\* rule, which declares two dependencies, and the rule was authorized.
C35_Witness ==
    /\ call.op = "provision"
    /\ "ing" \in srun.names
    /\ srun.attempts["ing"] = 1
    /\ Cardinality(Range(get_dependencies("ing"))) = 2
    /\ "ing" \in cloud
    /\ res["ing"].available

\* The direct and transitive prerequisites of the tasks in S, S included.
RECURSIVE Prerequisites(_, _)
Prerequisites(run, S) ==
    LET more == S \cup UNION {run.deps[n] : n \in S \cap run.names}
    IN  IF more = S THEN S ELSE Prerequisites(run, more)

\* The run is over, and every task whose direct and transitive
\* prerequisites all completed was invoked and is in the completed set when
\* its last invocation succeeded and in the failed set when it did not.
UnrelatedTasksRan ==
    /\ ~exec.active
    /\ \A t \in exec.names :
        Prerequisites(exec, exec.deps[t]) \subseteq exec.completed =>
            /\ Len(opLog[t]) > 0
            /\ Last(opLog[t]) <=> t \in exec.completed
            /\ ~Last(opLog[t]) <=> t \in exec.failed

C37_SavedAfterChange ==
    (/\ call.op \in {"CreateStack", "DestroyStack"}
     /\ call.worked
     /\ settings.storage \in StoragePlugins) =>
        /\ call.past = <<StackSerialize>>
        /\ stack.global_name \in DOMAIN store
        /\ dedynamize(store[stack.global_name]) = StackSerialize

(***************************************************************************)
(* The life of one resource of each kind: create() and destroy() called    *)
(* again and again on a resource that is attached to a stack.  The         *)
(* provider keeps the state of the resource's object and two counts, both  *)
(* since the resource was constructed or last destroyed with success: the  *)
(* creation requests it was sent (issued) and the ones it carried out      *)
(* (made).  call.invoked holds the provider requests of the call.          *)
(***************************************************************************)

LifeKinds == {"SecurityGroup", "Volume", "AccessKey", "User", "Instance"}

\* A resource after __init__, deserialize and add_resource.  id is the
\* attribute that stores what the provider gave for the object: _group_id,
\* _volume_id, _access_key_id, _user_info or _instance_id.
NewOfKind(kind, spot_price) ==
    [local_name |-> "r", type |-> kind, stack |-> TheStack,
     available |-> FALSE, id |-> None,
     spot_price |-> spot_price, spot_instance_request |-> None,
     terminated |-> TRUE]

\* The provider before any request.
NoObject == [state |-> "absent", issued |-> 0, made |-> 0]

\* What one step of a resource operation does: the resource and the
\* provider afterwards, the outcome the executor sees, and the provider
\* requests that were sent.
Step(resource, provider, outcome, requests) ==
    [resource |-> resource, cloud |-> provider, outcome |-> outcome,
     requests |-> requests]

\* The provider carries a creation request out, or answers with an error.
Granted(provider) ==
    [provider EXCEPT !.state = "present", !.issued = @ + 1, !.made = @ + 1]

Refused(provider) == [provider EXCEPT !.issued = @ + 1]

\* A variant of request_needed that asks the provider every time.
request_always(o) == TRUE

\* if self._group_id is None / if not self._volume_id /
\* if self._access_key_id is None / if not self._user_info
request_needed(o) == o.id = None

\* _create_group, _create_volume, _create_key, _create_user: the creation
\* request is sent unless the provider id is stored already, and the id the
\* provider answers with is stored.
CreationRequest(o, c) ==
    IF request_needed(o)
    THEN {Step([o EXCEPT !.id = "id"], Granted(c), "ok", {"create"}),
          Step(o, Refused(c), "raise", {"create"})}
    ELSE {Step(o, c, "ok", {})}

\* A step that changes nothing and ends with one of the outcomes given.
Plain(o, c, outcomes) == {Step(o, c, out, {}) : out \in outcomes}

\* The tasks of SecurityGroup.create: _create_group, create_tags,
\* _check_created.
SecurityGroupStep(o, c, t) ==
    CASE t = "create" -> CreationRequest(o, c)
      [] t = "tag" -> Plain(o, c, Outcomes)
      [] t = "check" ->
            Plain(o, c, {"falsy", "raise"}
                        \cup (IF c.state = "present" THEN {"ok"} ELSE {}))

\* The tasks of Volume.create: _check_snapshot, _create_volume,
\* _create_tags, _check_created.
VolumeStep(o, c, t) ==
    CASE t = "check_snapshot" -> Plain(o, c, {"ok", "raise"})
      [] t = "create_volume" -> CreationRequest(o, c)
      [] t = "create_tags" -> Plain(o, c, {"ok", "raise"})
      [] t = "check_created" ->
            {Step(o, c, "raise", {}),
             Step([o EXCEPT !.available = FALSE], c, "falsy", {})}
            \cup (IF c.state = "present"
                  THEN {Step([o EXCEPT !.available = TRUE], c, "ok", {})}
                  ELSE {})

\* The tasks of AccessKey.create and AccessKey.destroy
AccessKeyCreateTasks ==
    <<create_task("create", {}, 0),
      create_task("check", {"create"}, settings.retries)>>

AccessKeyDestroyTasks ==
    <<create_task("delete", {}, 0),
      create_task("check", {"delete"}, settings.retries)>>

\* _create_key and _check_created; _delete_key and _check_deleted
AccessKeyStep(o, c, t, op) ==
    CASE t = "create" -> CreationRequest(o, c)
      [] t = "check" /\ op = "create" ->
            {Step(o, c, "raise", {}),
             Step(o, c, IF o.available THEN "ok" ELSE "falsy", {})}
            \cup (IF c.state = "present"
                  THEN {Step([o EXCEPT !.available = TRUE], c, "ok", {})}
                  ELSE {})
      [] t = "delete" ->
            {Step(o, c, "raise", {"delete"})}
            \cup (IF c.state = "present"
                  THEN {Step(o, [c EXCEPT !.state = "absent"], "ok", {"delete"})}
                  ELSE {})
      [] t = "check" /\ op = "destroy" ->
            {Step(o, c, "raise", {})}
            \cup (IF c.state = "present"
                  THEN {Step(o, c, IF o.available THEN "falsy" ELSE "ok", {})}
                  ELSE {Step([o EXCEPT !.id = None, !.available = FALSE],
                             c, "ok", {})})

\* The tasks of User.create and User.destroy
UserCreateTasks ==
    <<create_task("create_user", {}, 0),
      create_task("check_user", {"create_user"}, settings.retries),
      create_task("add_to_groups", {"check_user"}, 0),
      create_task("create_policies", {"check_user"}, 0)>>

UserDestroyTasks ==
    <<create_task("check_user", {}, settings.retries),
      create_task("remove_from_groups", {"check_user"}, 0),
      create_task("delete_policies", {"check_user"}, 0),
      create_task("delete_user", {"check_user"}, 0)>>

\* _create_user, _check_user, _add_to_groups, _create_policies,
\* _rm_from_groups, _delete_policies, _delete_user
UserStep(o, c, t) ==
    CASE t = "create_user" -> CreationRequest(o, c)
      [] t = "check_user" ->
            Plain(o, c, IF c.state = "present" THEN {"ok"} ELSE {"falsy"})
      [] t = "delete_user" ->
            {Step(o, c, "raise", {"delete"})}
            \cup (IF c.state = "present"
                  THEN {Step(o, [c EXCEPT !.state = "absent"], "ok", {"delete"})}
                  ELSE {})
      [] OTHER -> Plain(o, c, {"ok", "raise"})

\* A variant of InstanceCreateTasks in which the steps after the request
\* wait only for the instance id.
InstanceCreateTasksAfterId(spot) ==
    <<create_task("get_security_group_ids", {}, 0),
      create_task("check_running", {"get_instance_id"}, settings.retries),
      create_task("create_tags", {"get_instance_id"}, settings.retries),
      create_task("attach_volumes", {"get_instance_id"}, settings.retries),
      create_task("check_initialized", {"get_instance_id"}, settings.retries)>>
    \o (IF spot
        THEN <<create_task("request_spot", {"get_security_group_ids"}, 0),
               create_task("get_instance_id", {"request_spot"}, settings.retries)>>
        ELSE <<create_task("get_instance_id", {"get_security_group_ids"}, 0)>>)

\* The tasks of Instance.create: common_tasks + type_specific_tasks
InstanceCreateTasks(spot) ==
    <<create_task("get_security_group_ids", {}, 0),
      create_task("check_running", {"get_instance_id"}, settings.retries),
      create_task("create_tags", {"check_running"}, settings.retries),
      create_task("attach_volumes", {"create_tags"}, settings.retries),
      create_task("check_initialized", {"create_tags"}, settings.retries)>>
    \o (IF spot
        THEN <<create_task("request_spot", {"get_security_group_ids"}, 0),
               create_task("get_instance_id", {"request_spot"}, settings.retries)>>
        ELSE <<create_task("get_instance_id", {"get_security_group_ids"}, 0)>>)

\* The tasks of Instance.destroy
InstanceDestroyTasks ==
    <<create_task("terminate", {}, 0),
      create_task("check", {"terminate"}, settings.retries)>>

\* _terminate_instance when the provider accepted the request or said that
\* the instance does not exist: if resp: self._instance_id = None
terminated_instance(o) == [o EXCEPT !.id = None, !.terminated = TRUE]

\* The tasks of Instance.create: _get_security_group_ids, _request_demand
\* or _request_spot and _check_spot, _check_running, create_tags,
\* attach_volumes, _check_reachable.
InstanceCreateStep(o, c, t) ==
    CASE t = "get_security_group_ids" -> Plain(o, c, {"ok", "raise"})
      [] t = "get_instance_id" /\ o.spot_price = None ->
            {Step([o EXCEPT !.id = "id"], Granted(c), "ok", {"create"}),
             Step(o, Refused(c), "raise", {"create"})}
      [] t = "request_spot" ->
            {Step([o EXCEPT !.spot_instance_request = "sir"], Refused(c),
                  "ok", {"create"}),
             Step(o, Refused(c), "raise", {"create"})}
      [] t = "get_instance_id" /\ o.spot_price # None ->
            Plain(o, c, {"falsy", "raise"})
            \cup {Step([o EXCEPT !.id = "id"],
                       [c EXCEPT !.state = "present", !.made = @ + 1],
                       "ok", {})}
      [] t = "check_running" ->
            IF o.id = None THEN Plain(o, c, {"falsy"})
            ELSE Plain(o, c, {"falsy", "raise"})
                 \cup (IF c.state = "present"
                       THEN {Step([o EXCEPT !.terminated = FALSE], c, "ok", {})}
                       ELSE {})
      [] t = "create_tags" -> Plain(o, c, Outcomes)
      [] t = "attach_volumes" ->
            Plain(o, c, IF o.id = None THEN {"falsy"} ELSE {"ok", "falsy"})
      [] t = "check_initialized" ->
            Plain(o, c, IF o.id = None THEN {"falsy"} ELSE Outcomes)

\* The tasks of Instance.destroy: _terminate_instance and
\* _check_terminated.  The provider reports an instance it was asked to
\* terminate as shutting down and later as terminated.
InstanceDestroyStep(o, c, t) ==
    CASE t = "terminate" ->
            IF o.id # None /\ ~o.terminated
            THEN {Step(o, c, "raise", {"terminate_instances"}),
                  Step([o EXCEPT !.terminated = TRUE], c, "ok",
                       {"terminate_instances"}),
                  Step(terminated_instance(o),
                       IF c.state = "present"
                       THEN [c EXCEPT !.state = "shutting-down"] ELSE c,
                       "ok", {"terminate_instances"})}
            ELSE {Step([o EXCEPT !.terminated = TRUE], c, "ok", {})}
      [] t = "check" ->
            IF o.id # None
            THEN {Step(o, c, "raise", {"get_all_instances"})}
                 \cup (IF c.state \in {"shutting-down", "terminated"}
                       THEN {Step([o EXCEPT !.available = FALSE, !.id = None],
                                  [c EXCEPT !.state = "terminated"], "ok",
                                  {"get_all_instances"})}
                       ELSE {})
                 \cup (IF c.state \in {"present", "shutting-down"}
                       THEN {Step(o, c, IF o.available THEN "falsy" ELSE "ok",
                                  {"get_all_instances"})}
                       ELSE {})
            ELSE {Step([o EXCEPT !.available = FALSE], c, "ok", {})}

\* The task list of the operation op of the resource o; none for an
\* operation that does its work without the executor.
KindTasks(o, op) ==
    CASE o.type = "SecurityGroup" /\ op = "create" -> SecurityGroupCreateTasks
      [] o.type = "Volume" /\ op = "create" -> VolumeCreateTasks
      [] o.type = "AccessKey" /\ op = "create" -> AccessKeyCreateTasks
      [] o.type = "AccessKey" /\ op = "destroy" -> AccessKeyDestroyTasks
      [] o.type = "User" /\ op = "create" -> UserCreateTasks
      [] o.type = "User" /\ op = "destroy" -> UserDestroyTasks
      [] o.type = "Instance" /\ op = "create" ->
            InstanceCreateTasks(o.spot_price # None)
      [] o.type = "Instance" /\ op = "destroy" -> InstanceDestroyTasks
      [] OTHER -> <<>>

\* What the task t of the operation op does.
KindStep(o, c, t, op) ==
    CASE o.type = "SecurityGroup" -> SecurityGroupStep(o, c, t)
      [] o.type = "Volume" -> VolumeStep(o, c, t)
      [] o.type = "AccessKey" -> AccessKeyStep(o, c, t, op)
      [] o.type = "User" -> UserStep(o, c, t)
      [] o.type = "Instance" /\ op = "create" -> InstanceCreateStep(o, c, t)
      [] o.type = "Instance" /\ op = "destroy" -> InstanceDestroyStep(o, c, t)

\* The provider after a destroy() that reported success: the counts start
\* again.
Forgotten(c) == [c EXCEPT !.issued = 0, !.made = 0]

\* SecurityGroup.destroy and Volume.destroy (the decorated functions), which
\* run no tasks: look the object up, delete it, forget the id.  A failed
\* delete raises in SecurityGroup.destroy; Volume.destroy makes a StackError
\* and does not raise it.
DirectDestroy(o, c) ==
    LET gone == [o EXCEPT !.available = FALSE, !.id = None]
        done(provider, requests) ==
            Step(gone, Forgotten(provider),
                 validate_destroy_resp("None", gone.available), requests)
    IN  IF o.id = None THEN {done(c, {})}
        ELSE {Step(o, c, ProviderError, {}), done(c, {})}
             \cup (IF c.state = "present"
                   THEN {done([c EXCEPT !.state = "absent"], {"delete"}),
                         Step(o, c, ProviderError, {"delete"})}
                        \cup (IF o.type = "SecurityGroup"
                              THEN {Step(o, c, StackError({"log"}), {"delete"})}
                              ELSE {done(c, {"delete"})})
                   ELSE {})

\* One resource of some kind, attached to a stack; an instance is an
\* on-demand or a spot instance.
InitKinds ==
    /\ exec = NoRun
    /\ opLog = [n \in TaskNames |-> <<>>]
    /\ resources = <<"r">>
    /\ \E kind \in LifeKinds :
        \E spot_price \in IF kind = "Instance" THEN {None, "0.5"} ELSE {None} :
            res = [n \in {"r"} |-> NewOfKind(kind, spot_price)]
    /\ settings \in [retries : 0..MaxSettingRetries, delay : {0}]
    /\ cloud = NoObject
    /\ srun = NoRun
    /\ rrun = NoRun
    /\ frame = NoFrame
    /\ call = NoCall
    /\ nops = 0
    /\ dict = NoData
    /\ stack = MadeStack
    /\ store = <<>>

\* The caller calls r.create() or r.destroy(): the guard, and then either
\* the start of the task run of the operation, or for an instance whose
\* spot request cannot be cancelled the error of the provider, or the
\* whole of a destroy that runs no tasks.
KindCall ==
    /\ Idle
    /\ nops < MaxCalls
    /\ \E op \in {"create", "destroy"} :
        LET o == res["r"]
            guard == IF op = "create" THEN validate_create_guard("r")
                     ELSE validate_destroy_guard("r")
            cancels == op = "destroy" /\ o.type = "Instance"
                       /\ o.spot_instance_request # None
        IN  CASE guard = "skip" ->
                    /\ call' = NewCall("r", op, "True", FALSE)
                    /\ UNCHANGED <<res, cloud, rrun, frame>>
              [] guard = "raise" ->
                    /\ call' = NewCall("r", op, GuardError, FALSE)
                    /\ UNCHANGED <<res, cloud, rrun, frame>>
              [] guard = "func" /\ KindTasks(o, op) # <<>> ->
                    \/ /\ call' = [NewCall("r", op, None, TRUE) EXCEPT
                                    !.invoked = IF cancels THEN {"cancel"}
                                                ELSE {}]
                       /\ res' = IF cancels
                                 THEN [res EXCEPT
                                        !["r"].spot_instance_request = None]
                                 ELSE res
                       /\ rrun' = NewRun(KindTasks(o, op))
                       /\ frame' = [res |-> "r", op |-> op]
                       /\ UNCHANGED cloud
                    \/ /\ cancels
                       /\ call' = [NewCall("r", op, ProviderError, TRUE)
                                    EXCEPT !.invoked = {"cancel"}]
                       /\ UNCHANGED <<res, cloud, rrun, frame>>
              [] OTHER ->
                    \E e \in DirectDestroy(o, cloud) :
                        /\ res' = [res EXCEPT !["r"] = e.resource]
                        /\ cloud' = e.cloud
                        /\ call' = [NewCall("r", op, e.outcome, TRUE) EXCEPT
                                        !.invoked = e.requests]
                        /\ UNCHANGED <<rrun, frame>>
    /\ nops' = nops + 1
    /\ UNCHANGED <<resources, settings, srun, dict, stack, store, execVars>>

\* The executor picks a task of the operation's run and the task's
\* function runs.
KindStart ==
    /\ frame.res # None
    /\ \E t \in Eligible(rrun) :
        \E e \in KindStep(res["r"], cloud, t, frame.op) :
            /\ res' = [res EXCEPT !["r"] = e.resource]
            /\ cloud' = e.cloud
            /\ rrun' = SetOutcome(StartTask(rrun, t), e.outcome)
            /\ call' = [call EXCEPT !.invoked = @ \cup e.requests]
    /\ UNCHANGED <<resources, settings, srun, frame, nops, dict, stack, store, execVars>>

\* What the decorated function returns, and the availability it leaves,
\* when its run has ended with the results given.
KindReturn(o, op, results) ==
    LET passed == tasks_passed(results, None)
        failed == Cardinality(results.failed) > 0
    IN  CASE o.type \in {"SecurityGroup", "Instance"} /\ op = "create" ->
                [passed |-> "None", available |-> passed = "True"]
          [] o.type = "Instance" /\ op = "destroy" ->
                [passed |-> passed, available |-> o.available]
          [] o.type = "User" /\ ~failed ->
                [passed |-> "None", available |-> op = "create"]
          [] OTHER ->
                [passed |-> IF failed THEN "False" ELSE "None",
                 available |-> o.available]

\* The run of the operation is over: the decorated function returns, the
\* guard computes its response, and the call returns to the caller.  The
\* results of the run stay in rrun until the next run.
KindFinish ==
    /\ frame.res # None
    /\ RunOver(rrun)
    /\ LET results == FinishRun(rrun)
           ret == KindReturn(res["r"], frame.op, results)
           resp == IF frame.op = "create"
                   THEN validate_create_resp(ret.passed, ret.available)
                   ELSE validate_destroy_resp(ret.passed, ret.available)
       IN  /\ rrun' = results
           /\ res' = [res EXCEPT !["r"].available = ret.available]
           /\ cloud' = IF frame.op = "destroy" /\ resp = "True"
                       THEN Forgotten(cloud) ELSE cloud
           /\ call' = [call EXCEPT !.result = resp]
    /\ frame' = NoFrame
    /\ UNCHANGED <<resources, settings, srun, nops, dict, stack, store, execVars>>

NextKinds == KindCall \/ KindStart \/ REnd \/ KindFinish

SpecKinds == InitKinds /\ [][NextKinds]_vars

\* The resource is an instance and the call in hand is its create() or
\* destroy(), past the guard.
InstanceCall(op) ==
    /\ res["r"].type = "Instance"
    /\ call.op = op
    /\ call.worked

\* In the run in hand, step b was not invoked before step a had completed.
StepAfter(b, a) ==
    (b \in rrun.names /\ rrun.attempts[b] > 0) => a \in rrun.completed

\* C32: in a run of Instance.create the steps keep the documented order:
\* get_security_group_ids before get_instance_id (for a spot instance
\* request_spot in between), get_instance_id before check_running,
\* check_running before create_tags, create_tags before attach_volumes and
\* before check_initialized; and the instance is available after the call
\* only if every step completed.
C32_InstanceCreateOrder ==
    InstanceCall("create") =>
        /\ IF res["r"].spot_price # None
           THEN /\ StepAfter("request_spot", "get_security_group_ids")
                /\ StepAfter("get_instance_id", "request_spot")
           ELSE /\ "request_spot" \notin rrun.names
                /\ StepAfter("get_instance_id", "get_security_group_ids")
        /\ StepAfter("check_running", "get_instance_id")
        /\ StepAfter("create_tags", "check_running")
        /\ StepAfter("attach_volumes", "create_tags")
        /\ StepAfter("check_initialized", "create_tags")
        /\ res["r"].available => /\ call.result = "True"
                                 /\ rrun.names = rrun.completed

\* The create() of a spot instance has returned True: all seven steps
\* completed and the instance is available.
C32_Witness ==
    /\ InstanceCall("create")
    /\ res["r"].spot_price # None
    /\ call.result = "True"
    /\ res["r"].available
    /\ Cardinality(rrun.completed) = 7

\* C40: Instance.destroy reports success, with available = false, only
\* after its check step has asked the provider and the provider has
\* reported the instance as terminated or as no longer existing.
C40_DestroyObservesTermination ==
    (InstanceCall("destroy") /\ call.result = "True") =>
        /\ ~res["r"].available
        /\ "get_all_instances" \in call.invoked
        /\ cloud.state \in {"terminated", "absent"}

\* The task of create() that sends the provider's creation request.
CreationTask(o) ==
    CASE o.type \in {"SecurityGroup", "AccessKey"} -> "create"
      [] o.type = "Volume" -> "create_volume"
      [] o.type = "User" -> "create_user"
      [] o.type = "Instance" ->
            IF o.spot_price # None THEN "request_spot" ELSE "get_instance_id"

\* The call in hand is a create(), past the guard, that follows a create()
\* and a destroy() of the resource that both returned True.
AfterCycle ==
    /\ call.op = "create"
    /\ call.worked
    /\ Len(call.past) >= 2
    /\ call.past[Len(call.past) - 1].op = "create"
    /\ call.past[Len(call.past) - 1].result = "True"
    /\ call.past[Len(call.past)].op = "destroy"
    /\ call.past[Len(call.past)].result = "True"

\* C38: for every kind of resource, the create() that follows a successful
\* create() and a successful destroy() sends a fresh creation request to
\* the provider: when its creation step has completed, the request was
\* sent in this call, and no identifier left from the first creation keeps
\* it back.
C38_CycleIssuesFreshRequest ==
    (AfterCycle /\ CreationTask(res["r"]) \in rrun.completed) =>
        "create" \in call.invoked

\* The kinds whose creation request is guarded by the stored provider id.
GuardedKinds == {"SecurityGroup", "Volume", "AccessKey", "User"}

=============================================================================
